---------------------------- MODULE Spec2Model ----------------------------
(***************************************************************************)
(* Model of the data-acquisition/caching layer (data_loader package) and   *)
(* of the investment-timing gate (strategies package) of stock_analysis.   *)
(*                                                                         *)
(* Dates are day numbers (days since 1970-01-01, proleptic Gregorian);     *)
(* times of day are minutes since midnight; 'YYYYMMDD' strings are the     *)
(* integers Y*10000 + M*100 + D.  A DataFrame is a record [cols, rows]:    *)
(* cols the set of column labels, rows a sequence of functions from cols   *)
(* to integer cell values.                                                 *)
(***************************************************************************)
EXTENDS Integers, Sequences, FiniteSets, TLC

VARIABLES
    tm,      \* timing run: a FixedInvestment strategy driven over a history
    chk,     \* one call of CacheManager.check_needs_update
    prb,     \* one call of a DataProvider asset-class probe
    clock,   \* wall clock read by datetime.datetime.now()
    files,   \* the cache directory: cache key -> file
    last,    \* observation of the most recent load_data call
    mrg,     \* one call of CacheManager.merge_data
    rs,      \* one call of SymbolResolver.resolve
    bt,      \* one run of run_backtest
    qd,      \* one call of QuadraticMAStrategy.get_investment_amount
    sg,      \* one call of a benchmark or interval strategy
    sm       \* one call of build_comparison_summary

vars == <<tm, chk, prb, clock, files, last, mrg, rs, bt, qd, sg, sm>>

\* the value a variable keeps in the specifications that do not use it
PrbIdle   == [done |-> FALSE]
ClockIdle == [date |-> 0, time |-> 0]
FilesIdle == <<>>
LastIdle  == [outcome |-> "idle"]
MrgIdle   == [done |-> FALSE]
RsIdle    == [done |-> FALSE]
BtIdle    == [state |-> "Idle"]
QdIdle    == [done |-> FALSE]
SgIdle    == [done |-> FALSE]
SmIdle    == [done |-> FALSE]

----------------------------------------------------------------------------
(* Calendar arithmetic, as datetime / pandas.Timestamp compute it.         *)

\* datetime.date(y, m, d) as a day number
DaysFromCivil(y, m, d) ==
    LET yy  == IF m <= 2 THEN y - 1 ELSE y
        era == yy \div 400
        yoe == yy - era * 400
        mp  == IF m > 2 THEN m - 3 ELSE m + 9
        doy == (153 * mp + 2) \div 5 + d - 1
        doe == yoe * 365 + yoe \div 4 - yoe \div 100 + doy
    IN  era * 146097 + doe - 719468

\* the (year, month, day) fields of a date
Civil(n) ==
    LET z   == n + 719468
        era == z \div 146097
        doe == z - era * 146097
        yoe == (doe - doe \div 1460 + doe \div 36524 - doe \div 146096) \div 365
        doy == doe - (365 * yoe + yoe \div 4 - yoe \div 100)
        mp  == (5 * doy + 2) \div 153
        d   == doy - (153 * mp + 2) \div 5 + 1
        m   == IF mp < 10 THEN mp + 3 ELSE mp - 9
        y   == yoe + era * 400 + (IF m <= 2 THEN 1 ELSE 0)
    IN  [year |-> y, month |-> m, day |-> d]

Year(n)  == Civil(n).year
Month(n) == Civil(n).month

\* date.weekday(): Monday = 0 ... Sunday = 6
Weekday(n) == (n + 3) % 7

\* date.isocalendar(): the ISO year and week are those of the week's Thursday
IsoCalendar(n) ==
    LET th == n - Weekday(n) + 3
    IN  [year |-> Year(th),
         week |-> (th - DaysFromCivil(Year(th), 1, 1)) \div 7 + 1,
         weekday |-> Weekday(n) + 1]

IsoWeek(n) == IsoCalendar(n).week

\* strftime('%Y%m%d')
StrfYmd(n) == Civil(n).year * 10000 + Civil(n).month * 100 + Civil(n).day

\* pd.to_datetime('YYYYMMDD').date()
ToDate(s) == DaysFromCivil(s \div 10000, (s \div 100) % 100, s % 100)

----------------------------------------------------------------------------
(* strategies/base.py, strategies/fixed.py                                 *)

Freqs == {"D", "W", "M"}

should_invest_month_only(history, current_date, freq) ==
    IF history = <<>> THEN FALSE
    ELSE IF Len(history) = 1 THEN TRUE
    ELSE LET prev_date == history[Len(history) - 1]
         IN  CASE freq = "D" -> TRUE
               [] freq = "M" -> Month(current_date) # Month(prev_date)
               [] freq = "W" -> \/ IsoWeek(current_date) # IsoWeek(prev_date)
                                \/ Year(current_date) # Year(prev_date)
               [] OTHER -> TRUE

\* history is the sequence of the 'date' cells of history_df
should_invest(history, current_date, freq) ==
    IF history = <<>> THEN FALSE
    ELSE IF Len(history) = 1 THEN TRUE
    ELSE LET prev_date == history[Len(history) - 1]
         IN  CASE freq = "D" -> TRUE
               [] freq = "M" -> \/ Month(current_date) # Month(prev_date)
                                \/ Year(current_date) # Year(prev_date)
               [] freq = "W" -> \/ IsoWeek(current_date) # IsoWeek(prev_date)
                                \/ Year(current_date) # Year(prev_date)
               [] OTHER -> TRUE

\* FixedInvestment(amount, freq).get_investment_amount
FixedGetInvestmentAmount(amount, freq, history, current_date) ==
    IF ~should_invest(history, current_date, freq) THEN 0 ELSE amount

----------------------------------------------------------------------------
(* Timing run: the strategy is asked once per row of an ascending history, *)
(* each time with the prefix of the history ending at that row.            *)

TimingBase == DaysFromCivil(2024, 12, 27)
MaxSpan    == 10
MaxHist    == 3
FixedAmount == 100

TradingDays(lo, hi) == {d \in lo..hi : Weekday(d) < 5}

RECURSIVE SortedSeq(_)
SortedSeq(S) ==
    IF S = {} THEN <<>>
    ELSE LET m == CHOOSE x \in S : \A y \in S : x <= y
         IN  <<m>> \o SortedSeq(S \ {m})

\* trading days around a turn of the year, and one a year later
TimingDays ==
    TradingDays(TimingBase, TimingBase + MaxSpan)
        \cup TradingDays(TimingBase + 364, TimingBase + 366)

Histories ==
    {SortedSeq(S) : S \in {T \in SUBSET TimingDays :
                              Cardinality(T) >= 1 /\ Cardinality(T) <= MaxHist}}

TmIdle == [freq |-> "D", hist |-> <<>>, amounts |-> <<>>]

TmInit ==
    \E f \in Freqs, h \in Histories : tm = [freq |-> f, hist |-> h, amounts |-> <<>>]

\* one iteration of the per-row loop
TmStep ==
    /\ Len(tm.amounts) < Len(tm.hist)
    /\ LET i == Len(tm.amounts) + 1
           a == FixedGetInvestmentAmount(FixedAmount, tm.freq,
                                         SubSeq(tm.hist, 1, i), tm.hist[i])
       IN  tm' = [tm EXCEPT !.amounts = Append(@, a)]
    /\ UNCHANGED <<chk, prb, clock, files, last, mrg, rs, bt, qd, sg, sm>>

----------------------------------------------------------------------------
(* DataFrames                                                              *)

NaN   == -1     \* float NaN, what read_csv yields for an empty field
PD_NA == -2     \* pd.NA

BaseCols == {"date", "open", "close", "high", "low", "volume"}

cyq_cols == {"profit_ratio", "avg_cost", "cost90_low", "cost90_high",
             "concentration90", "cost70_low", "cost70_high", "concentration70"}

\* pd.DataFrame()
EmptyDF == [cols |-> {}, rows |-> <<>>]

\* df.empty: some axis has length 0
IsEmpty(df) == df.rows = <<>> \/ df.cols = {}

\* the 'date' column, in row order
DateCol(df) == [i \in 1..Len(df.rows) |-> df.rows[i]["date"]]

DateSet(df) == IF "date" \in df.cols THEN {df.rows[i]["date"] : i \in 1..Len(df.rows)} ELSE {}

\* a standardized price row: every price field carries the quote p
BaseRow(d, p) == [c \in BaseCols |-> IF c = "date" THEN d ELSE p]

\* the standardized frame holding one row per date of ds (ascending)
PriceFrame(ds, p) ==
    IF ds = {} THEN EmptyDF
    ELSE [cols |-> BaseCols,
          rows |-> LET s == SortedSeq(ds) IN [i \in 1..Len(s) |-> BaseRow(s[i], p)]]

\* df[col] = v for a new column
AddColumn(df, col, v) ==
    [cols |-> df.cols \cup {col},
     rows |-> [i \in 1..Len(df.rows) |->
                 [c \in df.cols \cup {col} |-> IF c \in df.cols THEN df.rows[i][c] ELSE v]]]

----------------------------------------------------------------------------
(* data_loader/cache_manager.py: CacheManager.check_needs_update           *)

EPOCH == 19900101                   \* '19900101'
PreMarketTime == 9 * 60 + 15        \* datetime.time(9, 15)
cutoff_time   == 15 * 60 + 10       \* datetime.time(15, 10)
OVERLAP_DAYS  == 7

check_needs_update_lag_inclusive(df, request_end_date, strategy_type, now) ==
    IF IsEmpty(df) THEN [needs_update |-> TRUE, fetch_start |-> EPOCH]
    ELSE
    LET last_date    == df.rows[Len(df.rows)]["date"]
        current_date == now.date
        current_time == now.time
        request_date == IF ToDate(request_end_date) > current_date
                        THEN current_date ELSE ToDate(request_end_date)
        fetch_start  == StrfYmd(last_date - OVERLAP_DAYS)
        friday_date  == current_date - (Weekday(current_date) - 4)
    IN  IF current_time < PreMarketTime /\ current_date - last_date <= 1
          THEN [needs_update |-> FALSE, fetch_start |-> fetch_start]
        ELSE IF Weekday(current_date) >= 5 /\ last_date >= friday_date
          THEN [needs_update |-> FALSE, fetch_start |-> fetch_start]
        ELSE IF last_date <= request_date
          THEN [needs_update |-> TRUE, fetch_start |-> fetch_start]
        ELSE IF PreMarketTime < current_time /\ current_time < cutoff_time
                /\ last_date = current_date
          THEN [needs_update |-> TRUE, fetch_start |-> fetch_start]
        ELSE IF strategy_type = "profit_ratio" /\ "profit_ratio" \notin df.cols
          THEN [needs_update |-> TRUE, fetch_start |-> fetch_start]
        ELSE [needs_update |-> FALSE, fetch_start |-> fetch_start]

check_needs_update_no_column_rule(df, request_end_date, strategy_type, now) ==
    IF IsEmpty(df) THEN [needs_update |-> TRUE, fetch_start |-> EPOCH]
    ELSE
    LET last_date    == df.rows[Len(df.rows)]["date"]
        current_date == now.date
        current_time == now.time
        request_date == IF ToDate(request_end_date) > current_date
                        THEN current_date ELSE ToDate(request_end_date)
        fetch_start  == StrfYmd(last_date - OVERLAP_DAYS)
        friday_date  == current_date - (Weekday(current_date) - 4)
    IN  IF current_time < PreMarketTime /\ current_date - last_date <= 1
          THEN [needs_update |-> FALSE, fetch_start |-> fetch_start]
        ELSE IF Weekday(current_date) >= 5 /\ last_date >= friday_date
          THEN [needs_update |-> FALSE, fetch_start |-> fetch_start]
        ELSE IF last_date < request_date
          THEN [needs_update |-> TRUE, fetch_start |-> fetch_start]
        ELSE IF PreMarketTime < current_time /\ current_time < cutoff_time
                /\ last_date = current_date
          THEN [needs_update |-> TRUE, fetch_start |-> fetch_start]
        ELSE [needs_update |-> FALSE, fetch_start |-> fetch_start]

check_needs_update_no_intraday(df, request_end_date, strategy_type, now) ==
    IF IsEmpty(df) THEN [needs_update |-> TRUE, fetch_start |-> EPOCH]
    ELSE
    LET last_date    == df.rows[Len(df.rows)]["date"]
        current_date == now.date
        current_time == now.time
        request_date == IF ToDate(request_end_date) > current_date
                        THEN current_date ELSE ToDate(request_end_date)
        fetch_start  == StrfYmd(last_date - OVERLAP_DAYS)
        friday_date  == current_date - (Weekday(current_date) - 4)
    IN  IF current_time < PreMarketTime /\ current_date - last_date <= 1
          THEN [needs_update |-> FALSE, fetch_start |-> fetch_start]
        ELSE IF Weekday(current_date) >= 5 /\ last_date >= friday_date
          THEN [needs_update |-> FALSE, fetch_start |-> fetch_start]
        ELSE IF last_date < request_date
          THEN [needs_update |-> TRUE, fetch_start |-> fetch_start]
        ELSE IF strategy_type = "profit_ratio" /\ "profit_ratio" \notin df.cols
          THEN [needs_update |-> TRUE, fetch_start |-> fetch_start]
        ELSE [needs_update |-> FALSE, fetch_start |-> fetch_start]

check_needs_update_lag_first(df, request_end_date, strategy_type, now) ==
    IF IsEmpty(df) THEN [needs_update |-> TRUE, fetch_start |-> EPOCH]
    ELSE
    LET last_date    == df.rows[Len(df.rows)]["date"]
        current_date == now.date
        current_time == now.time
        request_date == IF ToDate(request_end_date) > current_date
                        THEN current_date ELSE ToDate(request_end_date)
        fetch_start  == StrfYmd(last_date - OVERLAP_DAYS)
        friday_date  == current_date - (Weekday(current_date) - 4)
    IN  IF last_date < request_date
          THEN [needs_update |-> TRUE, fetch_start |-> fetch_start]
        ELSE IF current_time < PreMarketTime /\ current_date - last_date <= 1
          THEN [needs_update |-> FALSE, fetch_start |-> fetch_start]
        ELSE IF Weekday(current_date) >= 5 /\ last_date >= friday_date
          THEN [needs_update |-> FALSE, fetch_start |-> fetch_start]
        ELSE IF PreMarketTime < current_time /\ current_time < cutoff_time
                /\ last_date = current_date
          THEN [needs_update |-> TRUE, fetch_start |-> fetch_start]
        ELSE IF strategy_type = "profit_ratio" /\ "profit_ratio" \notin df.cols
          THEN [needs_update |-> TRUE, fetch_start |-> fetch_start]
        ELSE [needs_update |-> FALSE, fetch_start |-> fetch_start]

\* now = [date, time] is the value of datetime.datetime.now()
check_needs_update(df, request_end_date, strategy_type, now) ==
    IF IsEmpty(df) THEN [needs_update |-> TRUE, fetch_start |-> EPOCH]
    ELSE
    LET last_date    == df.rows[Len(df.rows)]["date"]
        current_date == now.date
        current_time == now.time
        request_date == IF ToDate(request_end_date) > current_date
                        THEN current_date ELSE ToDate(request_end_date)
        fetch_start  == StrfYmd(last_date - OVERLAP_DAYS)
        friday_date  == current_date - (Weekday(current_date) - 4)
    IN  \* 1. pre-market
        IF current_time < PreMarketTime /\ current_date - last_date <= 1
          THEN [needs_update |-> FALSE, fetch_start |-> fetch_start]
        \* 2. weekend
        ELSE IF Weekday(current_date) >= 5 /\ last_date >= friday_date
          THEN [needs_update |-> FALSE, fetch_start |-> fetch_start]
        \* 3. cache lags the request
        ELSE IF last_date < request_date
          THEN [needs_update |-> TRUE, fetch_start |-> fetch_start]
        \* 4. intraday refresh
        ELSE IF PreMarketTime < current_time /\ current_time < cutoff_time
                /\ last_date = current_date
          THEN [needs_update |-> TRUE, fetch_start |-> fetch_start]
        \* 5. strategy column completeness
        ELSE IF strategy_type = "profit_ratio" /\ "profit_ratio" \notin df.cols
          THEN [needs_update |-> TRUE, fetch_start |-> fetch_start]
        ELSE [needs_update |-> FALSE, fetch_start |-> fetch_start]

----------------------------------------------------------------------------
(* One call of check_needs_update on a cached frame, a requested end date, *)
(* a strategy type and a reading of the clock.                             *)

FreshBase    == DaysFromCivil(2024, 1, 4)      \* a Thursday
MaxFreshSpan == 5

FreshDays == FreshBase..(FreshBase + MaxFreshSpan)

\* times of day around the two session boundaries
Times == {0, PreMarketTime - 1, PreMarketTime, PreMarketTime + 1,
          cutoff_time - 1, cutoff_time, cutoff_time + 1}

StrategyTypes == {"none", "fixed", "profit_ratio"}

\* cached frames: rows up to a last date, with or without the cyq columns
CachedFrames ==
    {EmptyDF}
    \cup {PriceFrame({l - 1, l}, 10) : l \in FreshDays}
    \cup {AddColumn(PriceFrame({l - 1, l}, 10), "profit_ratio", NaN) : l \in FreshDays}

ChkIdle == [df |-> EmptyDF, end |-> EPOCH, strategy_type |-> "none",
            now |-> [date |-> 0, time |-> 0], done |-> FALSE,
            needs_update |-> FALSE, fetch_start |-> EPOCH]

ChkInit ==
    \E df \in CachedFrames, e \in FreshDays, st \in StrategyTypes,
       d \in FreshDays, t \in Times :
        chk = [df |-> df, end |-> StrfYmd(e), strategy_type |-> st,
               now |-> [date |-> d, time |-> t], done |-> FALSE,
               needs_update |-> FALSE, fetch_start |-> EPOCH]

CheckNeedsUpdate ==
    /\ ~chk.done
    /\ LET r == check_needs_update(chk.df, chk.end, chk.strategy_type, chk.now)
       IN  chk' = [chk EXCEPT !.done = TRUE,
                              !.needs_update = r.needs_update,
                              !.fetch_start = r.fetch_start]
    /\ UNCHANGED <<tm, prb, clock, files, last, mrg, rs, bt, qd, sg, sm>>

----------------------------------------------------------------------------
(* data_loader/data_provider.py: DataProvider                              *)
(*                                                                         *)
(* Symbols are sequences of one-character strings.  The Chinese column     *)
(* labels of the upstream frames are written in pinyin: riqi (date),       *)
(* kaipan (open), shoupan (close), zuigao (high), zuidi (low),             *)
(* chengjiaoliang (volume), chengjiaoe (amount), jingzhiriqi (NAV date),   *)
(* danweijingzhi (unit NAV).                                               *)
(* An upstream reply is [kind, df] with kind "raise", "none" or "frame";   *)
(* the upstream `up` maps <<endpoint, symbol argument>> to its reply.      *)

Digits == {"0", "1", "2", "3", "4", "5", "6", "7", "8", "9"}

\* str.isdigit()
IsDigit(s) == s # <<>> /\ \A i \in 1..Len(s) : s[i] \in Digits

\* str.startswith(prefix)
StartsWith(s, prefix) ==
    Len(s) >= Len(prefix) /\ SubSeq(s, 1, Len(prefix)) = prefix

sh == <<"s", "h">>
sz == <<"s", "z">>

\* self.column_map
column_map ==
    ("riqi" :> "date") @@ ("kaipan" :> "open") @@ ("shoupan" :> "close")
    @@ ("zuigao" :> "high") @@ ("zuidi" :> "low")
    @@ ("chengjiaoliang" :> "volume") @@ ("chengjiaoe" :> "amount")

\* the label df.rename(columns=columns) gives to column c
Renamed(columns, c) == IF c \in DOMAIN columns THEN columns[c] ELSE c

\* df.rename(columns=columns), for frames in which no two columns get one label
RenameCols(df, columns) ==
    LET newcols == {Renamed(columns, c) : c \in df.cols}
        src(n)  == IF n \in df.cols /\ Renamed(columns, n) = n THEN n
                   ELSE CHOOSE c \in df.cols : Renamed(columns, c) = n
    IN  [cols |-> newcols,
         rows |-> [i \in 1..Len(df.rows) |-> [n \in newcols |-> df.rows[i][src(n)]]]]

\* df[cols]
SelectCols(df, cs) ==
    [cols |-> cs,
     rows |-> [i \in 1..Len(df.rows) |-> [c \in cs |-> df.rows[i][c]]]]

\* df[(df[col] >= lo) & (df[col] <= hi)]
FilterRange(df, col, lo, hi) ==
    [cols |-> df.cols,
     rows |-> SelectSeq(df.rows, LAMBDA r : r[col] >= lo /\ r[col] <= hi)]

\* df[new] = df[old]
CopyCol(df, new, old) ==
    [cols |-> df.cols \cup {new},
     rows |-> [i \in 1..Len(df.rows) |->
                 [c \in df.cols \cup {new} |->
                     IF c = new THEN df.rows[i][old] ELSE df.rows[i][c]]]]

\* df[new] = v
SetCol(df, new, v) ==
    [cols |-> df.cols \cup {new},
     rows |-> [i \in 1..Len(df.rows) |->
                 [c \in df.cols \cup {new} |->
                     IF c = new THEN v ELSE df.rows[i][c]]]]

\* DataProvider._standardize; the argument is an upstream reply that did
\* not raise
_standardize(reply) ==
    IF reply.kind = "none" \/ IsEmpty(reply.df) THEN EmptyDF
    ELSE LET df == RenameCols(reply.df, column_map)
         IN  SelectCols(df, BaseCols \cap df.cols)

Call(up, api, s) == up[<<api, s>>]

\* `df is not None and not df.empty` for a reply that did not raise
HasRows(reply) == reply.kind = "frame" /\ ~IsEmpty(reply.df)

NoData == [df |-> EmptyDF, t |-> "None"]

\* DataProvider.fetch_index
fetch_index(symbol, start, end, up) ==
    LET symbols_to_try ==
            IF Len(symbol) = 6 /\ IsDigit(symbol)
            THEN IF StartsWith(symbol, <<"6">>) \/ StartsWith(symbol, <<"0", "0", "0">>)
                 THEN <<symbol, sh \o symbol>>
                 ELSE <<symbol, sz \o symbol>>
            ELSE <<symbol>>
        em(i)   == Call(up, "index_zh_a_hist", symbols_to_try[i])
        em_hits == {i \in 1..Len(symbols_to_try) : HasRows(em(i))}
        sina(i) == Call(up, "stock_zh_index_daily", symbols_to_try[i])
        \* a reply without a 'date' column raises KeyError inside the try
        sina_hits == {i \in 1..Len(symbols_to_try) :
                        /\ StartsWith(symbols_to_try[i], sh) \/ StartsWith(symbols_to_try[i], sz)
                        /\ HasRows(sina(i))
                        /\ "date" \in sina(i).df.cols}
        first(S) == CHOOSE i \in S : \A j \in S : i <= j
    IN  IF em_hits # {}
        THEN [df |-> _standardize(em(first(em_hits))), t |-> "index"]
        ELSE IF sina_hits # {}
        THEN LET df == FilterRange(sina(first(sina_hits)).df, "date",
                                   ToDate(start), ToDate(end))
             IN  [df |-> _standardize([kind |-> "frame", df |-> df]), t |-> "index"]
        ELSE NoData

\* DataProvider.fetch_stock
fetch_stock(symbol, start, end, adjust, up) ==
    LET em == Call(up, "stock_zh_a_hist", symbol)
        full_symbol ==
            IF \/ StartsWith(symbol, <<"6">>)
               \/ StartsWith(symbol, <<"0", "0", "0">>)
               \/ StartsWith(symbol, <<"6", "8", "8">>)
            THEN sh \o symbol ELSE sz \o symbol
        sina == Call(up, "stock_zh_a_daily", full_symbol)
    IN  IF HasRows(em) THEN [df |-> _standardize(em), t |-> "stock"]
        ELSE IF HasRows(sina) THEN [df |-> _standardize(sina), t |-> "stock"]
        ELSE NoData

\* DataProvider.fetch_etf
fetch_etf(symbol, start, end, adjust, up) ==
    LET full_symbol == (IF StartsWith(symbol, <<"5">>) THEN sh ELSE sz) \o symbol
        sina == Call(up, "fund_etf_hist_sina", full_symbol)
        em   == Call(up, "fund_etf_hist_em", symbol)
    IN  \* a reply without a 'date' column raises KeyError inside the try
        IF HasRows(sina) /\ "date" \in sina.df.cols
        THEN LET df == FilterRange(sina.df, "date", ToDate(start), ToDate(end))
             IN  [df |-> _standardize([kind |-> "frame", df |-> df]), t |-> "etf"]
        ELSE IF HasRows(em) THEN [df |-> _standardize(em), t |-> "etf"]
        ELSE NoData

\* DataProvider.fetch_otc_fund
fetch_otc_fund(symbol, start, end, up) ==
    LET r == Call(up, "fund_open_fund_info_em", symbol)
    IN  IF r.kind = "raise" THEN NoData
        ELSE IF ~HasRows(r) THEN NoData
        \* a missing NAV column raises KeyError inside the try
        ELSE IF ~({"jingzhiriqi", "danweijingzhi"} \subseteq r.df.cols) THEN NoData
        ELSE LET d1 == CopyCol(r.df, "riqi", "jingzhiriqi")
                 d2 == CopyCol(d1, "shoupan", "danweijingzhi")
                 d3 == CopyCol(d2, "kaipan", "danweijingzhi")
                 d4 == CopyCol(d3, "zuigao", "danweijingzhi")
                 d5 == CopyCol(d4, "zuidi", "danweijingzhi")
                 d6 == SetCol(d5, "chengjiaoliang", 0)
                 df == FilterRange(d6, "riqi", ToDate(start), ToDate(end))
             IN  [df |-> _standardize([kind |-> "frame", df |-> df]), t |-> "otc_fund"]

----------------------------------------------------------------------------
(* The upstream endpoints (akshare), as a black box.                       *)

EmApis   == {"index_zh_a_hist", "stock_zh_a_hist", "fund_etf_hist_em"}
SinaApis == {"stock_zh_index_daily", "stock_zh_a_daily", "fund_etf_hist_sina"}
FundApis == {"fund_open_fund_info_em"}
Apis     == EmApis \cup SinaApis \cup FundApis

\* the labels an endpoint's frame carries
NativeCols(api) ==
    IF api \in EmApis
    THEN {"riqi", "kaipan", "shoupan", "zuigao", "zuidi", "chengjiaoliang", "chengjiaoe"}
    ELSE IF api \in SinaApis
    THEN {"date", "open", "high", "low", "close", "volume"}
    ELSE {"jingzhiriqi", "danweijingzhi", "rizengzhanglv"}

DateLabel(api) ==
    IF api \in EmApis THEN "riqi" ELSE IF api \in SinaApis THEN "date" ELSE "jingzhiriqi"

\* the frame an endpoint returns for the dates ds, every other cell being p
NativeFrame(api, ds, p) ==
    LET s == SortedSeq(ds)
    IN  [cols |-> NativeCols(api),
         rows |-> [i \in 1..Len(s) |->
                     [c \in NativeCols(api) |-> IF c = DateLabel(api) THEN s[i] ELSE p]]]

\* the symbol arguments the provider derives from a clean symbol
SymbolArgs(symbol) == {symbol, sh \o symbol, sz \o symbol}

AllCalls(symbol) == (Apis \cup {"stock_cyq_em"}) \X SymbolArgs(symbol)

Raises == [kind |-> "raise", df |-> EmptyDF]
ReturnsNone == [kind |-> "none", df |-> EmptyDF]
Returns(df) == [kind |-> "frame", df |-> df]

\* what an endpoint may do when asked for [lo, hi]: raise, return None, an
\* empty frame, rows inside the range, rows outside it, rows on both sides
\* of its start, or a frame without its date column
ReplyShapes == {"raise", "none", "empty", "in", "out", "mixed", "nodate"}

Reply(api, shape, lo, hi, p) ==
    CASE shape = "raise" -> Raises
      [] shape = "none"  -> ReturnsNone
      [] shape = "empty" -> Returns([cols |-> NativeCols(api), rows |-> <<>>])
      [] shape = "in"    -> Returns(NativeFrame(api, {lo, hi}, p))
      [] shape = "out"   -> Returns(NativeFrame(api, {lo - 2, lo - 1}, p))
      [] shape = "mixed" -> Returns(NativeFrame(api, {lo - 1, lo}, p))
      [] shape = "nodate" ->
            Returns(SelectCols(NativeFrame(api, {lo, hi}, p),
                               NativeCols(api) \ {DateLabel(api)}))

----------------------------------------------------------------------------
(* One call of an asset-class probe against one behaviour of the upstream. *)

Probes == <<"index", "stock", "etf", "otc_fund">>

S_000300 == <<"0", "0", "0", "3", "0", "0">>
S_513180 == <<"5", "1", "3", "1", "8", "0">>
S_159915 == <<"1", "5", "9", "9", "1", "5">>
S_HSI    == <<"H", "S", "I">>

ProbeSymbols == {S_000300, S_513180, S_159915, S_HSI}

\* the endpoint calls a probe can make for a symbol
CallsOf(probe, symbol) ==
    CASE probe = "index" ->
            {"index_zh_a_hist", "stock_zh_index_daily"} \X SymbolArgs(symbol)
      [] probe = "stock" ->
            {"stock_zh_a_hist", "stock_zh_a_daily"} \X SymbolArgs(symbol)
      [] probe = "etf" ->
            {"fund_etf_hist_sina", "fund_etf_hist_em"} \X SymbolArgs(symbol)
      [] probe = "otc_fund" -> {<<"fund_open_fund_info_em", symbol>>}

\* the calls on which the probe's outcome can depend: the raw symbol and the
\* exchange-prefixed one
LiveCalls(probe, symbol) ==
    {k \in CallsOf(probe, symbol) :
        \/ k[2] = symbol
        \/ /\ k[2] = (IF probe = "etf"
                      THEN (IF StartsWith(symbol, <<"5">>) THEN sh ELSE sz)
                      ELSE (IF StartsWith(symbol, <<"6">>) \/ StartsWith(symbol, <<"0", "0", "0">>)
                            THEN sh ELSE sz)) \o symbol
           /\ k[1] \in SinaApis \cup {"index_zh_a_hist"}}

MaxProbeSpan == 1
QUOTE == 10

RunProbeOp(probe, symbol, start, end, adjust, up) ==
    CASE probe = "index" -> fetch_index(symbol, start, end, up)
      [] probe = "stock" -> fetch_stock(symbol, start, end, adjust, up)
      [] probe = "etf"   -> fetch_etf(symbol, start, end, adjust, up)
      [] probe = "otc_fund" -> fetch_otc_fund(symbol, start, end, up)

PrbInit ==
    \E i \in 1..Len(Probes), symbol \in ProbeSymbols, span \in 0..MaxProbeSpan :
      \E shapes \in [LiveCalls(Probes[i], symbol) -> ReplyShapes] :
        LET lo == FreshBase
            hi == FreshBase + span
        IN  prb = [probe |-> Probes[i], symbol |-> symbol,
                   start |-> StrfYmd(lo), end |-> StrfYmd(hi),
                   up |-> [k \in AllCalls(symbol) |->
                             IF k \in LiveCalls(Probes[i], symbol)
                             THEN Reply(k[1], shapes[k], lo, hi, QUOTE)
                             ELSE Raises],
                   done |-> FALSE, result |-> NoData]

RunProbe ==
    /\ ~prb.done
    /\ prb' = [prb EXCEPT !.done = TRUE,
                          !.result = RunProbeOp(prb.probe, prb.symbol, prb.start,
                                                prb.end, "qfq", prb.up)]
    /\ UNCHANGED <<tm, chk, clock, files, last, mrg, rs, bt, qd, sg, sm>>

InitProbe ==
    /\ PrbInit
    /\ tm = TmIdle /\ chk = ChkIdle /\ clock = ClockIdle
    /\ files = FilesIdle /\ last = LastIdle
    /\ mrg = MrgIdle /\ rs = RsIdle /\ bt = BtIdle /\ qd = QdIdle
    /\ sg = SgIdle /\ sm = SmIdle

NextProbe == RunProbe

SpecProbe == InitProbe /\ [][NextProbe]_vars

\* C4: each probe returns either a non-empty standardized series together
\* with its asset-type tag, or an empty series together with type None,
\* whatever the upstream endpoints return or throw.
C4_ProbeReturnsSeriesWithTagOrEmptyWithNone ==
    prb.done =>
        \/ /\ ~IsEmpty(prb.result.df)
           /\ prb.result.df.cols \subseteq BaseCols
           /\ prb.result.t = prb.probe
        \/ /\ IsEmpty(prb.result.df)
           /\ prb.result.t = "None"

InitFresh ==
    /\ ChkInit
    /\ tm = TmIdle /\ prb = PrbIdle /\ clock = ClockIdle
    /\ files = FilesIdle /\ last = LastIdle
    /\ mrg = MrgIdle /\ rs = RsIdle /\ bt = BtIdle /\ qd = QdIdle
    /\ sg = SgIdle /\ sm = SmIdle

NextFresh == CheckNeedsUpdate

SpecFresh == InitFresh /\ [][NextFresh]_vars

InitTiming ==
    /\ TmInit
    /\ chk = ChkIdle /\ prb = PrbIdle /\ clock = ClockIdle
    /\ files = FilesIdle /\ last = LastIdle
    /\ mrg = MrgIdle /\ rs = RsIdle /\ bt = BtIdle /\ qd = QdIdle
    /\ sg = SgIdle /\ sm = SmIdle

NextTiming == TmStep

SpecTiming == InitTiming /\ [][NextTiming]_vars

----------------------------------------------------------------------------
(* Claims about check_needs_update (SpecFresh)                             *)

ChkLastDate == chk.df.rows[Len(chk.df.rows)]["date"]

ChkColumnMissing ==
    /\ chk.done /\ ~IsEmpty(chk.df)
    /\ chk.strategy_type = "profit_ratio"
    /\ "profit_ratio" \notin chk.df.cols

\* the pre-market rule: before 09:15 with the cache at most one day behind
ChkPreMarketFresh ==
    chk.now.time < 9 * 60 + 15 /\ chk.now.date - ChkLastDate <= 1

\* the weekend rule: Saturday or Sunday with the cache at or after Friday
ChkWeekendFresh ==
    /\ Weekday(chk.now.date) \in {5, 6}
    /\ ChkLastDate >= chk.now.date - (Weekday(chk.now.date) - 4)

\* C2 (as stated): for a non-empty cache, when the required column
\* 'profit_ratio' is asked for and absent from the cached schema,
\* check_needs_update answers needs_update = TRUE for every now and every
\* requested end date.
C2_MissingColumnAlwaysUpdates ==
    ChkColumnMissing => chk.needs_update

\* C2 (amended): for a non-empty cache, when the required column is asked
\* for and absent, check_needs_update answers needs_update = TRUE unless the
\* pre-market rule or the weekend rule applies, in which case it answers
\* FALSE.
C2_MissingColumnUpdatesUnlessCalendarFresh ==
    ChkColumnMissing =>
        (chk.needs_update <=> ~(ChkPreMarketFresh \/ ChkWeekendFresh))

\* the column rule alone decides: dates fresh, outside the session
C2_Witness ==
    /\ ChkColumnMissing
    /\ ~ChkPreMarketFresh /\ ~ChkWeekendFresh
    /\ ChkLastDate >= ToDate(chk.end)
    /\ chk.now.time > 15 * 60 + 10
    /\ chk.needs_update

\* C26: for a non-empty cache, when now is before 09:15 with the last cached
\* date at most one day before today, or today is Saturday or Sunday with the
\* last cached date on or after the most recent Friday, check_needs_update
\* answers needs_update = FALSE for every requested end date and every
\* strategy type, the one that requires 'profit_ratio' included.
C26_CalendarRulesFirst ==
    chk.done /\ ~IsEmpty(chk.df) /\ (ChkPreMarketFresh \/ ChkWeekendFresh)
        => ~chk.needs_update

\* Saturday after 09:15, the cache ends on the Friday, the request asks for
\* a later day and for the absent column: fresh all the same
C26_Witness ==
    /\ ChkColumnMissing
    /\ Weekday(chk.now.date) = 5
    /\ chk.now.time >= 9 * 60 + 15
    /\ ChkLastDate = chk.now.date - 1
    /\ ToDate(chk.end) > ChkLastDate
    /\ ~chk.needs_update

ChkOutsideIntraday ==
    ~(9 * 60 + 15 < chk.now.time /\ chk.now.time < 15 * 60 + 10)

\* C6: for a non-empty cached series, with no required column given and now
\* outside the intraday-refresh window, check_needs_update answers
\* needs_update = FALSE for every requested end date <= the last cached date.
C6_FreshnessMonotonicity ==
    ( /\ chk.done /\ ~IsEmpty(chk.df)
      /\ chk.strategy_type = "none"
      /\ ChkOutsideIntraday
      /\ ToDate(chk.end) <= ChkLastDate )
    => ~chk.needs_update

\* end date equal to the last cached date, on a weekday after the close,
\* several days after the last cached date
C6_Witness ==
    /\ chk.done /\ ~IsEmpty(chk.df)
    /\ chk.strategy_type = "none"
    /\ ToDate(chk.end) = ChkLastDate
    /\ chk.now.date > ChkLastDate + 1
    /\ Weekday(chk.now.date) < 5
    /\ chk.now.time > 15 * 60 + 10
    /\ ~chk.needs_update

----------------------------------------------------------------------------
(* Claims about the weekly gate (SpecTiming)                               *)

SameIsoWeek(a, b) ==
    /\ IsoCalendar(a).year = IsoCalendar(b).year
    /\ IsoCalendar(a).week = IsoCalendar(b).week

\* C5: with freq = 'W', over any ascending history, no two rows that fall in
\* the same ISO calendar week both receive a non-zero amount (weeks that
\* straddle a year boundary included).
C5_OneInvestmentPerIsoWeek ==
    tm.freq = "W" =>
        \A i, j \in 1..Len(tm.amounts) :
            (i < j /\ SameIsoWeek(tm.hist[i], tm.hist[j]))
                => ~(tm.amounts[i] # 0 /\ tm.amounts[j] # 0)

----------------------------------------------------------------------------
(* data_loader/symbol_resolver.py: SymbolResolver.resolve                  *)

\* str.upper(), on the letters that occur in the modelled symbols
UpperChar(c) ==
    CASE c = "o" -> "O"
      [] c = "f" -> "F"
      [] c = "s" -> "S"
      [] c = "h" -> "H"
      [] OTHER -> c

Upper(s) == [i \in 1..Len(s) |-> UpperChar(s[i])]

\* str.split('.')
RECURSIVE Split(_)
Split(s) ==
    IF \A i \in 1..Len(s) : s[i] # "."
    THEN <<s>>
    ELSE LET k == CHOOSE i \in 1..Len(s) :
                     s[i] = "." /\ \A j \in 1..(i - 1) : s[j] # "."
         IN  <<SubSeq(s, 1, k - 1)>> \o Split(SubSeq(s, k + 1, Len(s)))

NoneStr == <<>>    \* None, where a string is expected

\* str.strip(), for the blank as the only whitespace character
RECURSIVE Strip(_)
Strip(s) ==
    IF s # <<>> /\ Head(s) = " " THEN Strip(Tail(s))
    ELSE IF s # <<>> /\ s[Len(s)] = " " THEN Strip(SubSeq(s, 1, Len(s) - 1))
    ELSE s

\* SymbolResolver.resolve; raised = TRUE stands for `raise ValueError`
resolve(symbol) ==
    LET symbol_str == Strip(symbol)
    IN  IF \E i \in 1..Len(symbol_str) : symbol_str[i] = "."
        THEN LET parts == Split(symbol_str)
                 suffix == Upper(parts[2])
             IN  IF suffix = <<"O", "F">>
                 THEN [raised |-> FALSE, clean_symbol |-> parts[1],
                       suffix |-> suffix, asset_type |-> "otc_fund"]
                 ELSE [raised |-> TRUE, clean_symbol |-> parts[1],
                       suffix |-> suffix, asset_type |-> "None"]
        ELSE [raised |-> FALSE, clean_symbol |-> symbol_str,
              suffix |-> NoneStr, asset_type |-> "None"]

----------------------------------------------------------------------------
(* data_loader/cache_manager.py: files, load, save, merge                  *)

qfq == <<"q", "f", "q">>

\* CacheManager.get_file_path, relative to data_dir
get_file_path(symbol, suffix, adjust) ==
    IF suffix = <<"O", "F">>
    THEN symbol \o <<".", "O", "F", "_">> \o adjust \o <<".", "c", "s", "v">>
    ELSE symbol \o <<"_">> \o adjust \o <<".", "c", "s", "v">>

\* A file is [state, csv]: state "absent", "corrupt" (unreadable) or "ok";
\* csv is the table written, a missing value being an empty field.
EMPTY_FIELD == -3

IsNull(v) == v \in {NaN, PD_NA}

AbsentFile  == [state |-> "absent", csv |-> EmptyDF]
CorruptFile == [state |-> "corrupt", csv |-> EmptyDF]

\* df.to_csv(index=False)
to_csv(df) ==
    [cols |-> df.cols,
     rows |-> [i \in 1..Len(df.rows) |->
                 [c \in df.cols |-> IF IsNull(df.rows[i][c]) THEN EMPTY_FIELD
                                    ELSE df.rows[i][c]]]]

\* pd.read_csv(file_path, parse_dates=['date'])
read_csv(csv) ==
    [cols |-> csv.cols,
     rows |-> [i \in 1..Len(csv.rows) |->
                 [c \in csv.cols |-> IF csv.rows[i][c] = EMPTY_FIELD THEN NaN
                                     ELSE csv.rows[i][c]]]]

\* CacheManager.load_local_cache
load_local_cache_ignore(file) == EmptyDF

load_local_cache(file) ==
    IF file.state = "ok" /\ "date" \in file.csv.cols
    THEN read_csv(file.csv)
    ELSE EmptyDF

save_cache_unguarded(df, file) ==
    [state |-> "ok", csv |-> to_csv(df)]

\* CacheManager.save_cache: the file after the call
save_cache(df, file) ==
    IF ~IsEmpty(df) THEN [state |-> "ok", csv |-> to_csv(df)] ELSE file

\* pd.concat([a, b], ignore_index=True): union of the columns, NaN where a
\* frame lacks a column
Concat(a, b) ==
    LET cs == a.cols \cup b.cols
        widen(df) == [i \in 1..Len(df.rows) |->
                        [c \in cs |-> IF c \in df.cols THEN df.rows[i][c] ELSE NaN]]
    IN  [cols |-> cs, rows |-> widen(a) \o widen(b)]

\* df.drop_duplicates(subset=['date'], keep='last')
DropDuplicatesKeepLast(df) ==
    LET keep == {i \in 1..Len(df.rows) :
                    \A j \in (i + 1)..Len(df.rows) :
                        df.rows[j]["date"] # df.rows[i]["date"]}
        idx  == SortedSeq(keep)
    IN  [cols |-> df.cols, rows |-> [k \in 1..Len(idx) |-> df.rows[idx[k]]]]

\* df.sort_values('date').reset_index(drop=True), a stable sort
SortValuesDate(df) ==
    LET n == Len(df.rows)
        \* position of row i in the sorted frame
        rank(i) == Cardinality({j \in 1..n :
                      \/ df.rows[j]["date"] < df.rows[i]["date"]
                      \/ df.rows[j]["date"] = df.rows[i]["date"] /\ j <= i})
    IN  [cols |-> df.cols,
         rows |-> [k \in 1..n |-> df.rows[CHOOSE i \in 1..n : rank(i) = k]]]

merge_data_keep_all(old_df, new_df) ==
    IF IsEmpty(old_df) THEN new_df
    ELSE IF IsEmpty(new_df) THEN old_df
    ELSE SortValuesDate(Concat(old_df, new_df))

merge_data_new_only(old_df, new_df) ==
    IF IsEmpty(new_df) THEN old_df ELSE new_df

merge_data_keep_first(old_df, new_df) ==
    IF IsEmpty(old_df) THEN new_df
    ELSE IF IsEmpty(new_df) THEN old_df
    ELSE SortValuesDate(DropDuplicatesKeepLast(Concat(new_df, old_df)))

\* CacheManager.merge_data
merge_data(old_df, new_df) ==
    IF IsEmpty(old_df) THEN new_df
    ELSE IF IsEmpty(new_df) THEN old_df
    ELSE SortValuesDate(DropDuplicatesKeepLast(Concat(old_df, new_df)))

----------------------------------------------------------------------------
(* data_loader/data_provider.py: DataProvider.fetch_cyq                    *)
(* pinyin labels: huolibili (profit ratio), pingjunchengben (average       *)
(* cost), NNchengben-di / -gao (NN% cost band low / high), NNjizhongdu     *)
(* (NN% concentration).                                                    *)

cyq_map ==
    ("huolibili" :> "profit_ratio") @@ ("pingjunchengben" :> "avg_cost")
    @@ ("90chengben-di" :> "cost90_low") @@ ("90chengben-gao" :> "cost90_high")
    @@ ("90jizhongdu" :> "concentration90") @@ ("70chengben-di" :> "cost70_low")
    @@ ("70chengben-gao" :> "cost70_high") @@ ("70jizhongdu" :> "concentration70")

CyqNative == {"huolibili", "pingjunchengben", "90chengben-di", "90chengben-gao",
              "90jizhongdu", "70chengben-di", "70chengben-gao", "70jizhongdu"}

fetch_cyq(symbol, adjust, up) ==
    LET r == Call(up, "stock_cyq_em", symbol)
    IN  IF r.kind = "raise" \/ ~HasRows(r) THEN EmptyDF
        ELSE IF ~("date" \in r.df.cols \/ "riqi" \in r.df.cols) THEN EmptyDF
        ELSE LET date_col == IF "date" \in r.df.cols THEN "date" ELSE "riqi"
                 d1 == RenameCols(r.df, date_col :> "date")
                 d2 == RenameCols(d1, cyq_map)
             IN  SelectCols(d2, {"date"} \cup (cyq_cols \cap d2.cols))

----------------------------------------------------------------------------
(* pandas.merge(left, right, on='date', how='left'), suffixes ('_x', '_y') *)
(* right has one row per date.  A column of both frames other than the key *)
(* is renamed c_x on the left and c_y on the right; when a renamed label   *)
(* is already a label of its frame, pandas (2.0 and later) raises          *)
(* MergeError.                                                             *)

pd_merge_left(left, right) ==
    IF ~("date" \in left.cols /\ "date" \in right.cols)
    THEN [raised |-> "KeyError", df |-> EmptyDF]
    ELSE
    LET overlap == (left.cols \cap right.cols) \ {"date"}
        lname(c) == IF c \in overlap THEN c \o "_x" ELSE c
        rname(c) == IF c \in overlap THEN c \o "_y" ELSE c
        ldup == \E c \in overlap : (c \o "_x") \in left.cols
        rdup == \E c \in overlap : (c \o "_y") \in right.cols
        lcols == {lname(c) : c \in left.cols}
        rcols == {rname(c) : c \in right.cols \ {"date"}}
        lsrc(n) == CHOOSE c \in left.cols : lname(c) = n
        rsrc(n) == CHOOSE c \in right.cols \ {"date"} : rname(c) = n
        match(d) == {j \in 1..Len(right.rows) : right.rows[j]["date"] = d}
        cell(i, n) ==
            IF n \in lcols THEN left.rows[i][lsrc(n)]
            ELSE LET m == match(left.rows[i]["date"])
                 IN  IF m = {} THEN NaN
                     ELSE right.rows[CHOOSE j \in m : TRUE][rsrc(n)]
    IN  IF ldup \/ rdup
        THEN [raised |-> "MergeError", df |-> EmptyDF]
        ELSE [raised |-> "None",
              df |-> [cols |-> lcols \cup rcols,
                      rows |-> [i \in 1..Len(left.rows) |->
                                  [n \in lcols \cup rcols |-> cell(i, n)]]]]

----------------------------------------------------------------------------
(* data_loader/__init__.py                                                 *)

_fetch_raw_data_stock_first(symbol, suffix, asset_type, start, end, adjust, up) ==
    IF asset_type = "otc_fund" \/ suffix = <<"O", "F">>
    THEN fetch_otc_fund(symbol, start, end, up) @@ [invoked |-> <<"otc_fund">>]
    ELSE
    LET r1 == fetch_stock(symbol, start, end, adjust, up)
        r2 == fetch_index(symbol, start, end, up)
        r3 == fetch_etf(symbol, start, end, adjust, up)
        r4 == fetch_otc_fund(symbol, start, end, up)
    IN  IF ~IsEmpty(r1.df) THEN r1 @@ [invoked |-> <<"stock">>]
        ELSE IF ~IsEmpty(r2.df) THEN r2 @@ [invoked |-> <<"stock", "index">>]
        ELSE IF ~IsEmpty(r3.df) THEN r3 @@ [invoked |-> <<"stock", "index", "etf">>]
        ELSE IF ~IsEmpty(r4.df)
             THEN r4 @@ [invoked |-> <<"stock", "index", "etf", "otc_fund">>]
        ELSE NoData @@ [invoked |-> <<"stock", "index", "etf", "otc_fund">>]

\* _fetch_raw_data; `invoked` lists the probes called, in call order
_fetch_raw_data(symbol, suffix, asset_type, start, end, adjust, up) ==
    IF asset_type = "otc_fund" \/ suffix = <<"O", "F">>
    THEN fetch_otc_fund(symbol, start, end, up) @@ [invoked |-> <<"otc_fund">>]
    ELSE
    LET r1 == fetch_index(symbol, start, end, up)
        r2 == fetch_stock(symbol, start, end, adjust, up)
        r3 == fetch_etf(symbol, start, end, adjust, up)
        r4 == fetch_otc_fund(symbol, start, end, up)
    IN  IF ~IsEmpty(r1.df) THEN r1 @@ [invoked |-> <<"index">>]
        ELSE IF ~IsEmpty(r2.df) THEN r2 @@ [invoked |-> <<"index", "stock">>]
        ELSE IF ~IsEmpty(r3.df) THEN r3 @@ [invoked |-> <<"index", "stock", "etf">>]
        ELSE IF ~IsEmpty(r4.df)
             THEN r4 @@ [invoked |-> <<"index", "stock", "etf", "otc_fund">>]
        ELSE NoData @@ [invoked |-> <<"index", "stock", "etf", "otc_fund">>]

FillCyqCols_skip(df) == df

\* for col in cyq_cols: if col not in df.columns: df[col] = pd.NA
FillCyqCols(df) ==
    LET cs == df.cols \cup cyq_cols
    IN  [cols |-> cs,
         rows |-> [i \in 1..Len(df.rows) |->
                     [c \in cs |-> IF c \in df.cols THEN df.rows[i][c] ELSE PD_NA]]]

----------------------------------------------------------------------------
(* The market behind the upstream endpoints.                               *)
(* world = [listed, outage, cyq]: the asset classes under which the symbol *)
(* is listed, which endpoints are down ("none", "em": the EM endpoints,    *)
(* "all"), and what the chip-distribution endpoint does ("raise", "full",  *)
(* "partial": two of the eight columns).                                   *)

LoadBase    == DaysFromCivil(2024, 1, 5)     \* a Friday
AncientDay  == LoadBase - 10                 \* a row older than the overlap window
MaxLoadDays == 1

\* the days for which the market has published a row by `today`
Published(today) == {AncientDay} \cup TradingDays(LoadBase - 1, today)

ApiClass(api) ==
    CASE api \in {"index_zh_a_hist", "stock_zh_index_daily"} -> "index"
      [] api \in {"stock_zh_a_hist", "stock_zh_a_daily", "stock_cyq_em"} -> "stock"
      [] api \in {"fund_etf_hist_sina", "fund_etf_hist_em"} -> "etf"
      [] OTHER -> "otc_fund"

\* the quote each asset class carries
QuoteOf(class) ==
    CASE class = "index" -> 3000
      [] class = "stock" -> 10
      [] class = "etf" -> 2
      [] OTHER -> 1

CyqValue(d) == 50 + (d - LoadBase)

CyqFrame(ds, cs, datelabel) ==
    LET seq == SortedSeq(ds)
    IN  [cols |-> cs \cup {datelabel},
         rows |-> [i \in 1..Len(seq) |->
                     [c \in cs \cup {datelabel} |->
                         IF c = datelabel THEN seq[i] ELSE CyqValue(seq[i])]]]

\* the endpoints that take start_date / end_date and answer within them
RangedApis == EmApis \cup {"stock_zh_a_daily"}

MarketUp(world, symbol, today, start, end) ==
    [k \in AllCalls(symbol) |->
        LET api == k[1]
            ds  == IF api \in RangedApis
                   THEN {d \in Published(today) : d >= ToDate(start) /\ d <= ToDate(end)}
                   ELSE Published(today)
        IN  IF world.outage = "all" THEN Raises
            ELSE IF world.outage = "em" /\ api \notin SinaApis THEN Raises
            ELSE IF ApiClass(api) \notin world.listed
                 THEN (IF api \in SinaApis THEN Raises
                       ELSE Returns([cols |-> {}, rows |-> <<>>]))
            ELSE IF api \in SinaApis /\ k[2] = symbol THEN Raises
            ELSE IF api \notin SinaApis /\ k[2] # symbol THEN Raises
            ELSE IF api = "stock_cyq_em"
                 THEN CASE world.cyq = "raise" -> Raises
                        [] world.cyq = "full" ->
                             Returns(CyqFrame(Published(today) \ {AncientDay},
                                              CyqNative, "riqi"))
                        [] OTHER ->
                             Returns(CyqFrame(Published(today) \ {AncientDay},
                                              {"huolibili", "pingjunchengben"}, "date"))
            ELSE IF ds = {} THEN Returns([cols |-> NativeCols(api), rows |-> <<>>])
            ELSE Returns(NativeFrame(api, ds, QuoteOf(ApiClass(api))))]

----------------------------------------------------------------------------
(* load_data.  end_date = 0 stands for None.  The result records what the  *)
(* call returned or raised, the cache file it left, and what it did on the *)
(* way: the frame read from the cache, the freshness decision, the probes  *)
(* invoked and what they and the enrichment probe returned.                *)

NotCalled == [df |-> EmptyDF, t |-> "None", invoked |-> <<>>, start |-> EPOCH]

\* the record of a call that raised before it touched anything
Blank(force_update, fs) ==
    [outcome |-> "ValueError", df |-> EmptyDF, files |-> fs,
     path |-> NoneStr, before |-> EmptyDF, force_update |-> force_update,
     needs_update |-> FALSE, fetch_start |-> EPOCH,
     fetched |-> NotCalled, cyq_called |-> FALSE, df_cyq |-> EmptyDF]

\* load_data, lines 79-86: fill the missing cyq columns and save
load_data_save(seen, f, cyq_called, df_cyq, df) ==
    [seen EXCEPT !.outcome = "returned", !.df = df,
                 !.files = [seen.files EXCEPT ![seen.path] = save_cache(df, @)],
                 !.fetched = f, !.cyq_called = cyq_called, !.df_cyq = df_cyq]

\* load_data, lines 73-77: the chip-distribution join for stocks
load_data_join(seen, f, cyq_called, df_cyq, df) ==
    IF cyq_called /\ ~IsEmpty(df_cyq)
    THEN LET joined == pd_merge_left(df, df_cyq)
         IN  IF joined.raised # "None"
             THEN [seen EXCEPT !.outcome = joined.raised, !.fetched = f,
                               !.cyq_called = cyq_called, !.df_cyq = df_cyq]
             ELSE load_data_save(seen, f, cyq_called, df_cyq, FillCyqCols(joined.df))
    ELSE load_data_save(seen, f, cyq_called, df_cyq, FillCyqCols(df))

\* load_data, lines 70-88: what is done with the fetched frame
load_data_merge(seen, r, adjust, up, f) ==
    IF IsEmpty(f.df)
    THEN [seen EXCEPT !.outcome = "returned", !.df = seen.before, !.fetched = f]
    ELSE load_data_join(seen, f, f.t = "stock",
                        IF f.t = "stock" THEN fetch_cyq(r.clean_symbol, adjust, up)
                        ELSE EmptyDF,
                        merge_data(seen.before, f.df))

load_data_update_from_epoch(seen, r, end_date, adjust, up) ==
    load_data_merge(seen, r, adjust, up,
                    _fetch_raw_data(r.clean_symbol, r.suffix, r.asset_type,
                                    EPOCH, end_date, adjust, up)
                        @@ [start |-> EPOCH])

\* load_data, lines 66-68: the refresh, against the upstream `up`; `start`
\* records the start date handed to the probes
load_data_update(seen, r, end_date, adjust, up) ==
    load_data_merge(seen, r, adjust, up,
                    _fetch_raw_data(r.clean_symbol, r.suffix, r.asset_type,
                                    seen.fetch_start, end_date, adjust, up)
                        @@ [start |-> seen.fetch_start])

load_data_check_always_update(r, end_date, adjust, force_update, strategy_type, now, fs, world, file_path, df) ==
    LET c == check_needs_update(df, end_date, strategy_type, now)
        seen == [Blank(force_update, fs) EXCEPT
                    !.path = file_path, !.before = df,
                    !.needs_update = IF force_update THEN TRUE ELSE c.needs_update,
                    !.fetch_start = IF force_update THEN EPOCH ELSE c.fetch_start]
    IN  load_data_update(seen, r, end_date, adjust,
                         MarketUp(world, r.clean_symbol, now.date,
                                  seen.fetch_start, end_date))

\* load_data, lines 59-66: the freshness decision on the cached frame df
load_data_check(r, end_date, adjust, force_update, strategy_type, now, fs, world, file_path, df) ==
    LET c == check_needs_update(df, end_date, strategy_type, now)
        seen == [Blank(force_update, fs) EXCEPT
                    !.path = file_path, !.before = df,
                    !.needs_update = IF force_update THEN TRUE ELSE c.needs_update,
                    !.fetch_start = IF force_update THEN EPOCH ELSE c.fetch_start]
    IN  IF ~seen.needs_update
        THEN [seen EXCEPT !.outcome = "returned", !.df = df]
        ELSE load_data_update(seen, r, end_date, adjust,
                              MarketUp(world, r.clean_symbol, now.date,
                                       seen.fetch_start, end_date))

\* load_data, lines 53-57: after resolve, read the cache
load_data_read(r, end_date, adjust, force_update, strategy_type, now, fs, world, file_path) ==
    load_data_check(r, end_date, adjust, force_update, strategy_type, now, fs, world,
                    file_path, load_local_cache(fs[file_path]))

load_data_resolved(r, end_date, adjust, force_update, strategy_type, now, fs, world) ==
    IF r.raised THEN Blank(force_update, fs)
    ELSE load_data_read(r, end_date, adjust, force_update, strategy_type, now, fs,
                        world, get_file_path(r.clean_symbol, r.suffix, adjust))

load_data(symbol, end_date_arg, adjust, force_update, strategy_type, now, fs, world) ==
    load_data_resolved(resolve(symbol),
                       IF end_date_arg = 0 THEN StrfYmd(now.date) ELSE end_date_arg,
                       adjust, force_update, strategy_type, now, fs, world)

----------------------------------------------------------------------------
(* The acquisition service at work on one ticker: the clock advances, and  *)
(* load_data is called with any arguments against any state of the market. *)

S_000300_OF == S_000300 \o <<".", "O", "F">>
S_000300_SH == S_000300 \o <<".", "S", "H">>
S_000300_OF_SH == S_000300 \o <<".", "O", "F", ".", "S", "H">>

LoadSymbols == {S_000300, S_000300_OF, S_000300_SH, S_000300_OF_SH}

CachePaths == {get_file_path(S_000300, NoneStr, qfq),
               get_file_path(S_000300, <<"O", "F">>, qfq)}

\* pre-market, in session, after the close
LoadTimes == <<9 * 60, 10 * 60, 16 * 60>>

\* the asset classes under which the upstream may list the ticker
ListedSets == {{"etf"}, {"otc_fund"}, {"index", "stock"},
               {"stock", "etf", "otc_fund"}}

\* the states of the upstream during one call
Worlds == {[outage |-> "none", cyq |-> "full"],
           [outage |-> "none", cyq |-> "partial"],
           [outage |-> "none", cyq |-> "raise"],
           [outage |-> "em",   cyq |-> "full"],
           [outage |-> "all",  cyq |-> "raise"]}

Init ==
    /\ tm = TmIdle /\ chk = ChkIdle /\ prb = PrbIdle
    /\ mrg = MrgIdle /\ rs = RsIdle /\ bt = BtIdle /\ qd = QdIdle
    /\ sg = SgIdle /\ sm = SmIdle
    /\ clock = [date |-> LoadBase, time |-> LoadTimes[1]]
    /\ \E f \in {AbsentFile, CorruptFile} : files = [p \in CachePaths |-> f]
    /\ \E sy \in LoadSymbols, ls \in ListedSets :
          last = [outcome |-> "none", symbol |-> sy, listed |-> ls]

\* time passes
Tick ==
    /\ \/ \E i \in 1..(Len(LoadTimes) - 1) :
             /\ clock.time = LoadTimes[i]
             /\ clock' = [clock EXCEPT !.time = LoadTimes[i + 1]]
       \/ /\ clock.time = LoadTimes[Len(LoadTimes)]
          /\ clock.date < LoadBase + MaxLoadDays
          /\ clock' = [date |-> clock.date + 1, time |-> LoadTimes[1]]
    /\ UNCHANGED <<tm, chk, prb, files, last, mrg, rs, bt, qd, sg, sm>>

LoadData ==
    /\ last.outcome \notin {"ValueError", "MergeError", "KeyError"}
    /\ \E end_date \in {0, StrfYmd(LoadBase - 1)}, force_update \in BOOLEAN,
          strategy_type \in {"none", "profit_ratio"}, w \in Worlds :
        \E r \in {load_data(last.symbol, end_date, qfq, force_update, strategy_type,
                            clock, files,
                            [listed |-> last.listed, outage |-> w.outage,
                             cyq |-> w.cyq])} :
            /\ last' = [outcome |-> r.outcome, symbol |-> last.symbol,
                        listed |-> last.listed, df |-> r.df, path |-> r.path,
                        before |-> r.before, force_update |-> r.force_update,
                        needs_update |-> r.needs_update,
                        fetch_start |-> r.fetch_start, fetched |-> r.fetched,
                        cyq_called |-> r.cyq_called, df_cyq |-> r.df_cyq]
            /\ files' = r.files
    /\ UNCHANGED <<tm, chk, prb, clock, mrg, rs, bt, qd, sg, sm>>

Next == Tick \/ LoadData

Spec == Init /\ [][Next]_vars

----------------------------------------------------------------------------
(* Claims about load_data (Spec)                                           *)

\* the last call got as far as probing the upstream
Refreshed == last.outcome \in {"returned", "MergeError"} /\ last.needs_update

\* ... and every probe it invoked came back empty
FailedRefresh == Refreshed /\ IsEmpty(last.fetched.df)

\* ... or one of them returned rows and the call returned
SuccessfulRefresh ==
    Refreshed /\ ~IsEmpty(last.fetched.df) /\ last.outcome = "returned"

\* the series the cache entry of a path holds
Persisted(fs, path) ==
    IF fs[path].state = "ok" THEN read_csv(fs[path].csv) ELSE EmptyDF

\* C1 (as stated): if every probe returns empty during a refresh, load_data
\* returns an empty series, whatever the cache held.
C1_FailedRefreshReturnsEmpty ==
    FailedRefresh => IsEmpty(last.df)

\* C1 (amended): if every probe returns empty during a refresh, load_data
\* returns the series held by the cache entry of that key, which is empty
\* only when there is no readable entry.
C1_FailedRefreshReturnsCachedSeries ==
    FailedRefresh =>
        /\ last.outcome = "returned"
        /\ last.df = Persisted(files, last.path)

\* a forced refresh fails over a cache that holds rows
C1_Witness ==
    /\ FailedRefresh
    /\ last.force_update
    /\ ~IsEmpty(last.df)

\* C7: a load_data call in which every probe returns empty leaves every
\* cache file as it was, with or without force_update; and save_cache with
\* an empty series writes nothing.
C7_FailedRefreshKeepsCache ==
    [][ /\ (last'.outcome = "returned" /\ last'.needs_update
            /\ IsEmpty(last'.fetched.df)) => files' = files
        /\ \A p \in CachePaths : save_cache(EmptyDF, files[p]) = files[p] ]_vars

\* a forced refresh failed and the good cache is still there
C7_Witness ==
    /\ FailedRefresh
    /\ last.force_update
    /\ files[last.path].state = "ok"
    /\ Len(files[last.path].csv.rows) >= 2

\* C8: every date present in a persisted cache entry is still present after
\* any later step.
C8_CacheDatesNeverDeleted ==
    [][\A p \in CachePaths :
          DateSet(Persisted(files, p)) \subseteq DateSet(Persisted(files', p))]_vars

\* a refresh that fetched only part of the dates now in the cache
C8_Witness ==
    /\ SuccessfulRefresh
    /\ DateSet(last.fetched.df) # DateSet(Persisted(files, last.path))
    /\ DateSet(last.fetched.df) \subseteq DateSet(Persisted(files, last.path))
    /\ DateSet(last.before) # DateSet(Persisted(files, last.path))

\* the asset classes in probing priority
Priority(class) == CHOOSE i \in 1..Len(Probes) : Probes[i] = class

\* C9: for a symbol without qualifier the probes are invoked in the order
\* index, stock, etf, otc_fund, each only after all before it returned empty,
\* and the series used is that of the first non-empty probe (the highest-
\* priority class that has data); for an OF symbol only the off-exchange
\* fund probe is invoked.
C9_ProbeOrder ==
    Refreshed =>
        LET inv == last.fetched.invoked
            t   == last.fetched.t
        IN  IF resolve(last.symbol).suffix = <<"O", "F">>
            THEN inv = <<"otc_fund">>
            ELSE /\ \E k \in 1..Len(Probes) : inv = SubSeq(Probes, 1, k)
                 /\ IsEmpty(last.fetched.df) => inv = Probes
                 /\ ~IsEmpty(last.fetched.df) =>
                      /\ t = inv[Len(inv)]
                      /\ t \in last.listed
                      /\ \A c \in last.listed : Priority(t) <= Priority(c)
                      /\ \A i \in 1..Len(last.fetched.df.rows) :
                            last.fetched.df.rows[i]["close"] = QuoteOf(t)
                      /\ last.outcome = "returned" =>
                            \A i \in 1..Len(last.df.rows) :
                                last.df.rows[i]["date"] \in DateSet(last.fetched.df)
                                    => last.df.rows[i]["close"] = QuoteOf(t)

\* index came back empty, stock answered, etf and otc_fund were not asked
C9_Witness ==
    /\ Refreshed
    /\ last.listed = {"stock", "etf", "otc_fund"}
    /\ last.fetched.invoked = <<"index", "stock">>
    /\ last.fetched.t = "stock"

\* C3: after a refresh won by 'stock', every row of the resulting series
\* whose date appears in the enrichment probe's output carries, in each
\* enrichment field the probe returned, the probe's value for that date.
C3_EnrichmentValuesJoined ==
    (SuccessfulRefresh /\ last.fetched.t = "stock") =>
        \A i \in 1..Len(last.df.rows) :
            \A j \in 1..Len(last.df_cyq.rows) :
                last.df.rows[i]["date"] = last.df_cyq.rows[j]["date"] =>
                    \A c \in last.df_cyq.cols :
                        last.df.rows[i][c] = last.df_cyq.rows[j][c]

\* C10: after any refresh in which a probe returned rows, the persisted
\* series carries all eight enrichment columns, and so does the returned
\* one, each cell being null or the value the enrichment probe gave for the
\* row's date; the cache as read back has the 'profit_ratio' column, so
\* check_needs_update decides on it exactly as it does without a required
\* column.
C10_EnrichmentColumnsAlwaysPresent ==
    (Refreshed /\ ~IsEmpty(last.fetched.df)) =>
        /\ cyq_cols \subseteq Persisted(files, last.path).cols
        /\ "profit_ratio" \in load_local_cache(files[last.path]).cols
        /\ \A i \in 1..Len(LoadTimes) :
              \A e \in {StrfYmd(clock.date), StrfYmd(LoadBase - 1)} :
                 check_needs_update(load_local_cache(files[last.path]), e,
                                    "profit_ratio",
                                    [date |-> clock.date, time |-> LoadTimes[i]])
                 = check_needs_update(load_local_cache(files[last.path]), e,
                                      "none",
                                      [date |-> clock.date, time |-> LoadTimes[i]])
        /\ last.outcome = "returned" =>
              /\ cyq_cols \subseteq last.df.cols
              /\ Persisted(files, last.path) = read_csv(to_csv(last.df))
              /\ \A i \in 1..Len(last.df.rows) : \A c \in cyq_cols :
                    \/ IsNull(last.df.rows[i][c])
                    \/ last.df.rows[i][c] = CyqValue(last.df.rows[i]["date"])

\* a refresh won by a class without enrichment: all eight columns are there
\* and hold nulls
C10_Witness ==
    /\ SuccessfulRefresh
    /\ last.fetched.t = "index"
    /\ cyq_cols \subseteq Persisted(files, last.path).cols
    /\ \A i \in 1..Len(last.df.rows) : \A c \in cyq_cols :
          last.df.rows[i][c] = PD_NA

\* the calendar month of a date
YearMonth(d) == <<Year(d), Month(d)>>

\* C19: with freq 'M', FixedInvestment returns the amount on the first row
\* and on every row whose (year, month) differs from the previous row's, and
\* 0 on every other row; over a whole ascending run exactly one row of each
\* calendar month that has rows gets an investment.
C19_MonthlyGate ==
    tm.freq = "M" =>
        /\ \A i \in 1..Len(tm.amounts) :
              tm.amounts[i] =
                  IF i = 1 \/ YearMonth(tm.hist[i]) # YearMonth(tm.hist[i - 1])
                  THEN FixedAmount ELSE 0
        /\ Len(tm.amounts) = Len(tm.hist) =>
              \A k \in 1..Len(tm.hist) :
                 Cardinality({i \in 1..Len(tm.hist) :
                                 /\ YearMonth(tm.hist[i]) = YearMonth(tm.hist[k])
                                 /\ tm.amounts[i] # 0}) = 1

\* a finished monthly run: two rows of one December, then the December of
\* the next year
C19_Witness ==
    /\ tm.freq = "M"
    /\ Len(tm.hist) = 3 /\ Len(tm.amounts) = 3
    /\ YearMonth(tm.hist[1]) = YearMonth(tm.hist[2])
    /\ Month(tm.hist[3]) = Month(tm.hist[2]) /\ Year(tm.hist[3]) = Year(tm.hist[2]) + 1
    /\ tm.amounts = <<FixedAmount, 0, FixedAmount>>

\* C14: on a weekday, strictly between 09:15 and 15:10, a cache whose last
\* date is today needs an update, for every requested end date and every
\* strategy type.
C14_IntradayRefresh ==
    (/\ chk.done
     /\ ~IsEmpty(chk.df)
     /\ Weekday(chk.now.date) < 5
     /\ PreMarketTime < chk.now.time /\ chk.now.time < cutoff_time
     /\ ChkLastDate = chk.now.date)
        => chk.needs_update

\* in session, the cache ends today, and the request does not go past it
C14_Witness ==
    /\ chk.done
    /\ ~IsEmpty(chk.df)
    /\ Weekday(chk.now.date) < 5
    /\ chk.now.time = PreMarketTime + 1
    /\ ChkLastDate = chk.now.date
    /\ ToDate(chk.end) <= ChkLastDate
    /\ chk.strategy_type = "none"
    /\ chk.needs_update

\* C13: the start date load_data hands to the probes is the epoch when the
\* cache entry of the key is absent, unreadable or empty or when force_update
\* is set, and otherwise the date of the entry's last row minus 7 days.
C13_ProbeStartDate ==
    [][ (last' # last /\ last'.outcome \in {"returned", "MergeError"}
         /\ last'.needs_update) =>
            last'.fetched.start =
                IF last'.force_update \/ IsEmpty(Persisted(files, last'.path))
                THEN EPOCH
                ELSE StrfYmd(Persisted(files, last'.path).rows[
                                 Len(Persisted(files, last'.path).rows)]["date"] - 7) ]_vars

\* an incremental refresh over a cache that holds rows
C13_Witness ==
    /\ Refreshed
    /\ ~last.force_update
    /\ ~IsEmpty(last.before)
    /\ last.fetched.start = StrfYmd(last.before.rows[Len(last.before.rows)]["date"] - 7)
    /\ last.fetched.start # EPOCH

----------------------------------------------------------------------------
(* One call of CacheManager.merge_data on two time series: frames whose    *)
(* dates are strictly increasing, with or without an enrichment column.    *)

MergeBase    == DaysFromCivil(2024, 1, 8)
MaxMergeDays == 3
MergeDays    == MergeBase..(MergeBase + MaxMergeDays - 1)
MergeQuotes  == {10, 11}
MergeColSets == {{"date", "close"}, {"date", "close", "profit_ratio"}}

\* the series with one row per date of S, closing at q[d] on date d
SeriesOf(S, q, cs) ==
    [cols |-> cs,
     rows |-> [i \in 1..Cardinality(S) |->
                 [c \in cs |-> CASE c = "date" -> SortedSeq(S)[i]
                                 [] c = "close" -> q[SortedSeq(S)[i]]
                                 [] OTHER -> q[SortedSeq(S)[i]] + 40]]]

MergeSeries ==
    {EmptyDF} \cup
    UNION {{SeriesOf(S, q, cs) : q \in [S -> MergeQuotes], cs \in MergeColSets} :
              S \in (SUBSET MergeDays) \ {{}}}

MrgInit ==
    \E o \in MergeSeries, n \in MergeSeries :
        mrg = [old |-> o, new |-> n, done |-> FALSE, out |-> EmptyDF]

MergeData ==
    /\ ~mrg.done
    /\ mrg' = [mrg EXCEPT !.done = TRUE, !.out = merge_data(mrg.old, mrg.new)]
    /\ UNCHANGED <<tm, chk, prb, clock, files, last, rs, bt, qd, sg, sm>>

InitMerge ==
    /\ MrgInit
    /\ tm = TmIdle /\ chk = ChkIdle /\ prb = PrbIdle /\ clock = ClockIdle
    /\ files = FilesIdle /\ last = LastIdle
    /\ rs = RsIdle /\ bt = BtIdle /\ qd = QdIdle
    /\ sg = SgIdle /\ sm = SmIdle

NextMerge == MergeData

SpecMerge == InitMerge /\ [][NextMerge]_vars

\* C11: merging a time series with itself gives that series back, the empty
\* series included.
C11_MergeIdempotent ==
    (mrg.done /\ mrg.old = mrg.new) => mrg.out = mrg.old

\* a series of several rows was merged with itself
C11_Witness ==
    /\ mrg.done
    /\ mrg.old = mrg.new
    /\ Len(mrg.old.rows) >= 2
    /\ Len(mrg.out.rows) >= 2

\* the rows of a frame dated d
RowsOn(df, d) == {i \in 1..Len(df.rows) : df.rows[i]["date"] = d}

\* C12: merge(old, new) holds exactly one row per date of the union of the
\* two date sets, and on a date of both the row carries new's values.
C12_MergePrecedence ==
    mrg.done =>
        /\ \A d \in DateSet(mrg.old) \cup DateSet(mrg.new) :
              Cardinality(RowsOn(mrg.out, d)) = 1
        /\ Len(mrg.out.rows) = Cardinality(DateSet(mrg.old) \cup DateSet(mrg.new))
        /\ \A d \in DateSet(mrg.old) \cap DateSet(mrg.new) :
              \A i \in RowsOn(mrg.out, d) : \A j \in RowsOn(mrg.new, d) :
                 \A c \in mrg.new.cols : mrg.out.rows[i][c] = mrg.new.rows[j][c]

\* a shared date on which old and new disagree, next to dates of one side only
C12_Witness ==
    /\ mrg.done
    /\ \E d \in DateSet(mrg.old) \cap DateSet(mrg.new) :
          \E i \in RowsOn(mrg.old, d), j \in RowsOn(mrg.new, d) :
             mrg.old.rows[i]["close"] # mrg.new.rows[j]["close"]
    /\ DateSet(mrg.old) \ DateSet(mrg.new) # {}
    /\ DateSet(mrg.new) \ DateSet(mrg.old) # {}

----------------------------------------------------------------------------
(* One call of SymbolResolver.resolve on a raw symbol.                     *)

SymbolChars == {"0", "3", ".", "O", "f", "S", " "}
MaxSymbolLen == 4

RawSymbols == UNION {[1..n -> SymbolChars] : n \in 0..MaxSymbolLen}

RsInit == \E raw \in RawSymbols : rs = [raw |-> raw, done |-> FALSE, out |-> resolve(<<>>)]

Resolve ==
    /\ ~rs.done
    /\ rs' = [rs EXCEPT !.done = TRUE, !.out = resolve(rs.raw)]
    /\ UNCHANGED <<tm, chk, prb, clock, files, last, mrg, bt, qd, sg, sm>>

InitResolve ==
    /\ RsInit
    /\ tm = TmIdle /\ chk = ChkIdle /\ prb = PrbIdle /\ clock = ClockIdle
    /\ files = FilesIdle /\ last = LastIdle
    /\ mrg = MrgIdle /\ bt = BtIdle /\ qd = QdIdle
    /\ sg = SgIdle /\ sm = SmIdle

NextResolve == Resolve

SpecResolve == InitResolve /\ [][NextResolve]_vars

\* the raw symbol without surrounding blanks
RsSymbol == Strip(rs.raw)

RsHasDot == \E i \in 1..Len(RsSymbol) : RsSymbol[i] = "."

\* the symbol is code + '.OF', the suffix in either case
RsEndsWithOF ==
    /\ Len(RsSymbol) >= 3
    /\ SubSeq(RsSymbol, Len(RsSymbol) - 2, Len(RsSymbol))
          \in {<<".", a, b>> : a \in {"O", "o"}, b \in {"F", "f"}}

\* C18: resolve returns (code, 'OF', 'otc_fund') for code + '.OF' (in either
\* case), (raw, None, None) for a symbol without a dot, and raises for every
\* symbol with any other dot-suffix.
C18_ResolveBySuffix ==
    rs.done =>
        IF ~RsHasDot
        THEN /\ ~rs.out.raised
             /\ rs.out.clean_symbol = RsSymbol
             /\ rs.out.suffix = NoneStr /\ rs.out.asset_type = "None"
        ELSE IF RsEndsWithOF
        THEN /\ ~rs.out.raised
             /\ rs.out.clean_symbol = SubSeq(RsSymbol, 1, Len(RsSymbol) - 3)
             /\ rs.out.suffix = <<"O", "F">> /\ rs.out.asset_type = "otc_fund"
        ELSE rs.out.raised

----------------------------------------------------------------------------
(* Python floats are modelled by exact rationals [n, d], d > 0, in lowest  *)
(* terms; rounding is not modelled.                                        *)

Abs(x) == IF x < 0 THEN -x ELSE x

RECURSIVE GCD(_, _)
GCD(a, b) == IF b = 0 THEN a ELSE GCD(b, a % b)

\* n / d, for d # 0
Rat(n, d) ==
    LET g == GCD(Abs(n), Abs(d))
        s == IF d < 0 THEN -1 ELSE 1
    IN  [n |-> (s * n) \div g, d |-> (s * d) \div g]

RInt(k)    == [n |-> k, d |-> 1]
RAdd(a, b) == Rat(a.n * b.d + b.n * a.d, a.d * b.d)
RSub(a, b) == Rat(a.n * b.d - b.n * a.d, a.d * b.d)
RMul(a, b) == Rat(a.n * b.n, a.d * b.d)
RDiv(a, b) == Rat(a.n * b.d, a.d * b.n)
RLt(a, b)  == a.n * b.d < b.n * a.d
RLe(a, b)  == a.n * b.d <= b.n * a.d

----------------------------------------------------------------------------
(* backtest/engine.py: run_backtest                                        *)

RMax(a, b) == IF RLt(a, b) THEN b ELSE a

BenchmarkGetInvestmentAmount_prev_row(base_amount, freq, scale_factor, history_df, current_date) ==
    IF ~should_invest(DateCol(history_df), current_date, freq) THEN RInt(0)
    ELSE LET n               == Len(history_df.rows)
             benchmark_price == RInt(history_df.rows[IF n > 1 THEN n - 1 ELSE 1]["close"])
             current_price   == RInt(history_df.rows[n]["close"])
             drop_ratio      == RDiv(RSub(benchmark_price, current_price), benchmark_price)
         IN  IF RLt(current_price, benchmark_price)
             THEN RMul(base_amount, RAdd(RInt(1), RMul(drop_ratio, scale_factor)))
             ELSE base_amount

\* strategies/benchmark.py lines 23-35:
\* BenchmarkDropStrategy(base_amount, freq, scale_factor)
\*     .get_investment_amount(history_df, current_date)
BenchmarkGetInvestmentAmount(base_amount, freq, scale_factor, history_df, current_date) ==
    IF ~should_invest(DateCol(history_df), current_date, freq) THEN RInt(0)
    ELSE LET benchmark_price == RInt(history_df.rows[1]["close"])
             current_price   == RInt(history_df.rows[Len(history_df.rows)]["close"])
             drop_ratio      == RDiv(RSub(benchmark_price, current_price), benchmark_price)
         IN  IF RLt(current_price, benchmark_price)
             THEN RMul(base_amount, RAdd(RInt(1), RMul(drop_ratio, scale_factor)))
             ELSE base_amount

\* a strategy object: a FixedInvestment, a BenchmarkDropStrategy, or any other
\* BaseStrategy, given by the amounts it answers call after call
GetInvestmentAmount(strategy, history_df, current_date) ==
    CASE strategy.kind = "fixed" ->
            RInt(FixedGetInvestmentAmount(strategy.amount, strategy.freq,
                                          DateCol(history_df), current_date))
      [] strategy.kind = "benchmark" ->
            BenchmarkGetInvestmentAmount(strategy.base_amount, strategy.freq,
                                         strategy.scale_factor, history_df, current_date)
      [] strategy.kind = "scripted" ->
            RInt(strategy.script[Len(history_df.rows)])

\* what pd.to_datetime raises on
BadDate == -1

InRange_end_exclusive(d, start_dt, end_dt) == d >= start_dt /\ d < end_dt

\* line 35: the mask of one row
InRange(d, start_dt, end_dt) == d >= start_dt /\ d <= end_dt

\* lines 35-36: df.loc[mask].reset_index(drop=True)
FilterRows(df, start_dt, end_dt) ==
    LET keep == {i \in 1..Len(df.rows) : InRange(df.rows[i]["date"], start_dt, end_dt)}
        idx  == SortedSeq(keep)
    IN  [cols |-> df.cols, rows |-> [k \in 1..Len(idx) |-> df.rows[idx[k]]]]

HistorySubset_whole(df_backtest, i) == df_backtest

\* line 55: df_backtest.iloc[:i+1], for the i-th row counted from 1
HistorySubset(df_backtest, i) ==
    [cols |-> df_backtest.cols, rows |-> SubSeq(df_backtest.rows, 1, i)]

Buy_unguarded(totals, amount, close_price) ==
    [invested |-> RAdd(totals.invested, amount),
     shares   |-> RAdd(totals.shares, RDiv(amount, close_price))]

\* lines 59-62: the purchase of one row
Buy(totals, amount, close_price) ==
    IF RLt(RInt(0), amount)
    THEN [invested |-> RAdd(totals.invested, amount),
          shares   |-> RAdd(totals.shares, RDiv(amount, close_price))]
    ELSE totals

ReturnRate_total_loss(profit, total_invested) ==
    IF RLt(RInt(0), total_invested)
    THEN RMul(RDiv(profit, total_invested), RInt(100))
    ELSE RInt(-100)

\* line 67
ReturnRate(profit, total_invested) ==
    IF RLt(RInt(0), total_invested)
    THEN RMul(RDiv(profit, total_invested), RInt(100))
    ELSE RInt(0)

\* lines 65-80: the record of one row
Record(current_row, totals) ==
    LET close_price   == RInt(current_row["close"])
        current_value == RMul(totals.shares, close_price)
        profit        == RSub(current_value, totals.invested)
        passed        == DOMAIN current_row \cap {"profit_ratio", "avg_cost"}
    IN  [c \in {"date", "total_invested", "final_value", "profit", "return_rate"}
               \cup passed |->
            CASE c = "date" -> current_row["date"]
              [] c = "total_invested" -> totals.invested
              [] c = "final_value" -> current_value
              [] c = "profit" -> profit
              [] c = "return_rate" -> ReturnRate(profit, totals.invested)
              [] OTHER -> current_row[c]]

----------------------------------------------------------------------------
(* One run of run_backtest: bt.state is "NotStarted" before the call,      *)
(* "Running" inside the loop, "Settled" when the ledger was returned and   *)
(* "NoResult" when None was.  bt.calls lists the calls made to the         *)
(* strategy: the history and date handed over, and the amount answered.    *)

MaxBtSpan == 4
BtDays    == TradingDays(TimingBase, TimingBase + MaxBtSpan)
BtCloses  == {2, 3}
BtAmounts == {-50, 0, 100}
BtBounds  == {TimingBase - 1, TimingBase + 3, TimingBase + 20, BadDate}

\* the input series: None, pd.DataFrame(), and time series over BtDays
BtFrames ==
    {[none |-> TRUE, df |-> EmptyDF], [none |-> FALSE, df |-> EmptyDF]}
    \cup {[none |-> FALSE, df |-> SeriesOf(S, q, cs)] :
             S \in {BtDays}, q \in [BtDays -> BtCloses], cs \in MergeColSets}
    \cup {[none |-> FALSE, df |-> SeriesOf(BtDays \ {d}, [e \in BtDays |-> 2],
                                           {"date", "close"})] : d \in BtDays}

BtScales  == {RInt(1), RInt(2)}

BtStrategies ==
    {[kind |-> "fixed", amount |-> FixedAmount, freq |-> f] : f \in Freqs}
    \cup {[kind |-> "benchmark", base_amount |-> RInt(FixedAmount), freq |-> f,
           scale_factor |-> k] : f \in Freqs, k \in BtScales}
    \cup {[kind |-> "scripted", script |-> s] :
             s \in [1..Cardinality(BtDays) -> BtAmounts]}

BtInit ==
    \E f \in BtFrames, s \in BtBounds, e \in BtBounds, st \in BtStrategies :
        bt = [state |-> "NotStarted", none |-> f.none, df |-> f.df,
              start_date |-> s, end_date |-> e, strategy |-> st,
              df_backtest |-> EmptyDF,
              totals |-> [invested |-> RInt(0), shares |-> RInt(0)],
              calls |-> <<>>, daily_records |-> <<>>]

\* lines 23-47: the checks, the range filter, the start of the loop
BtStart ==
    /\ bt.state = "NotStarted"
    /\ \/ /\ bt.none \/ IsEmpty(bt.df)
          /\ bt' = [bt EXCEPT !.state = "NoResult"]
       \/ /\ ~(bt.none \/ IsEmpty(bt.df))
          /\ bt.start_date = BadDate \/ bt.end_date = BadDate
          /\ bt' = [bt EXCEPT !.state = "NoResult"]
       \/ /\ ~(bt.none \/ IsEmpty(bt.df))
          /\ bt.start_date # BadDate /\ bt.end_date # BadDate
          /\ \E fr \in {FilterRows(bt.df, bt.start_date, bt.end_date)} :
                bt' = [bt EXCEPT !.state = IF IsEmpty(fr) THEN "NoResult" ELSE "Running",
                                 !.df_backtest = fr]
    /\ UNCHANGED <<tm, chk, prb, clock, files, last, mrg, rs, qd, sg, sm>>

\* lines 49-82: one iteration of the loop
BtStep ==
    /\ bt.state = "Running"
    /\ Len(bt.daily_records) < Len(bt.df_backtest.rows)
    /\ \E i \in {Len(bt.daily_records) + 1} :
       \E h \in {HistorySubset(bt.df_backtest, i)} :
       \E a \in {GetInvestmentAmount(bt.strategy, h, bt.df_backtest.rows[i]["date"])} :
       \E t \in {Buy(bt.totals, a, RInt(bt.df_backtest.rows[i]["close"]))} :
          bt' = [bt EXCEPT !.totals = t,
                           !.calls = Append(@, [history_df |-> h,
                                                current_date |-> bt.df_backtest.rows[i]["date"],
                                                amount |-> a]),
                           !.daily_records = Append(@, Record(bt.df_backtest.rows[i], t))]
    /\ UNCHANGED <<tm, chk, prb, clock, files, last, mrg, rs, qd, sg, sm>>

\* line 84: return pd.DataFrame(daily_records)
BtReturn ==
    /\ bt.state = "Running"
    /\ Len(bt.daily_records) = Len(bt.df_backtest.rows)
    /\ bt' = [bt EXCEPT !.state = "Settled"]
    /\ UNCHANGED <<tm, chk, prb, clock, files, last, mrg, rs, qd, sg, sm>>

InitBacktest ==
    /\ BtInit
    /\ tm = TmIdle /\ chk = ChkIdle /\ prb = PrbIdle /\ clock = ClockIdle
    /\ files = FilesIdle /\ last = LastIdle
    /\ mrg = MrgIdle /\ rs = RsIdle /\ qd = QdIdle
    /\ sg = SgIdle /\ sm = SmIdle

NextBacktest == BtStart \/ BtStep \/ BtReturn

SpecBacktest == InitBacktest /\ [][NextBacktest]_vars

\* C15: total_invested and total_shares never decrease from one row to the
\* next, whatever amounts the strategy returns, and the records show it.
C15_LedgerMonotone ==
    [][ /\ RLe(bt.totals.invested, bt'.totals.invested)
        /\ RLe(bt.totals.shares, bt'.totals.shares)
        /\ \A t \in 2..Len(bt'.daily_records) :
              RLe(bt'.daily_records[t - 1]["total_invested"],
                  bt'.daily_records[t]["total_invested"]) ]_vars

\* a settled run of a strategy that answered a negative amount after a buy
C15_Witness ==
    /\ bt.state = "Settled"
    /\ bt.strategy.kind = "scripted"
    /\ Len(bt.daily_records) >= 3
    /\ bt.strategy.script[1] > 0 /\ bt.strategy.script[2] < 0 /\ bt.strategy.script[3] > 0
    /\ RLt(bt.daily_records[1]["total_invested"], bt.daily_records[3]["total_invested"])

\* C16: a record whose total_invested is 0 has return_rate 0.
C16_ZeroInvestedZeroReturn ==
    \A t \in 1..Len(bt.daily_records) :
        bt.daily_records[t]["total_invested"] = RInt(0)
            => bt.daily_records[t]["return_rate"] = RInt(0)

\* the strategy skipped the leading day and invested later
C16_Witness ==
    /\ bt.state = "Settled"
    /\ Len(bt.daily_records) >= 2
    /\ bt.daily_records[1]["total_invested"] = RInt(0)
    /\ bt.daily_records[1]["return_rate"] = RInt(0)
    /\ RLt(RInt(0), bt.daily_records[Len(bt.daily_records)]["total_invested"])

\* the dates of the input rows inside [start, end]
BtInRangeDates ==
    IF bt.none \/ bt.start_date = BadDate \/ bt.end_date = BadDate THEN {}
    ELSE {d \in DateSet(bt.df) : bt.start_date <= d /\ d <= bt.end_date}

\* C17: run_backtest returns None exactly when the input is None or empty,
\* a bound does not parse, or no row lies in [start, end]; otherwise it
\* returns a ledger with one record per in-range row, in ascending date
\* order, hence never an empty one.
C17_NoResultOrFullLedger ==
    /\ bt.state = "NoResult" => BtInRangeDates = {}
    /\ bt.state \in {"Running", "Settled"} => BtInRangeDates # {}
    /\ bt.state = "Settled" =>
          /\ Len(bt.daily_records) = Cardinality(BtInRangeDates)
          /\ bt.daily_records # <<>>
          /\ \A t \in 1..Len(bt.daily_records) :
                bt.daily_records[t]["date"] = SortedSeq(BtInRangeDates)[t]

\* a ledger over a range whose end is the date of a row, with a row left out
C17_Witness ==
    /\ bt.state = "Settled"
    /\ Len(bt.daily_records) = 2
    /\ Len(bt.df.rows) = 3
    /\ bt.daily_records[2]["date"] = bt.end_date

----------------------------------------------------------------------------
(* strategies/quadratic_ma.py: QuadraticMAStrategy                         *)

MA_WINDOW == 250

\* the sum of the cells s[lo..hi], by halves
RECURSIVE SumCells(_, _, _)
SumCells(s, lo, hi) ==
    IF lo > hi THEN 0
    ELSE IF lo = hi THEN s[lo]
    ELSE SumCells(s, lo, (lo + hi) \div 2) + SumCells(s, (lo + hi) \div 2 + 1, hi)

\* close_series.iloc[-250:].mean(), for a series of at least 250 cells
MA250(closes) ==
    Rat(SumCells(closes, Len(closes) - MA_WINDOW + 1, Len(closes)), MA_WINDOW)

RMin(a, b) == IF RLt(b, a) THEN b ELSE a

QuadraticGetInvestmentAmount_uncapped(base_amount, freq, k_factor, max_multiplier, history_df, current_date) ==
    IF ~should_invest(DateCol(history_df), current_date, freq) THEN RInt(0)
    ELSE IF Len(history_df.rows) < MA_WINDOW THEN base_amount
    ELSE LET ma250 == MA250([i \in 1..Len(history_df.rows) |-> history_df.rows[i]["close"]])
             current_price == RInt(history_df.rows[Len(history_df.rows)]["close"])
             d == RDiv(RSub(ma250, current_price), ma250)
         IN  IF RLt(current_price, ma250)
             THEN RMul(base_amount, RAdd(RInt(1), RMul(k_factor, RMul(d, d))))
             ELSE base_amount

\* QuadraticMAStrategy(base_amount, freq, k_factor, max_multiplier)
\*     .get_investment_amount(history_df, current_date)
QuadraticGetInvestmentAmount(base_amount, freq, k_factor, max_multiplier, history_df, current_date) ==
    IF ~should_invest(DateCol(history_df), current_date, freq) THEN RInt(0)
    ELSE IF Len(history_df.rows) < MA_WINDOW THEN base_amount
    ELSE LET ma250 == MA250([i \in 1..Len(history_df.rows) |-> history_df.rows[i]["close"]])
             current_price == RInt(history_df.rows[Len(history_df.rows)]["close"])
             d == RDiv(RSub(ma250, current_price), ma250)
         IN  IF RLt(current_price, ma250)
             THEN RMul(base_amount,
                       RMin(RAdd(RInt(1), RMul(k_factor, RMul(d, d))), max_multiplier))
             ELSE base_amount

----------------------------------------------------------------------------
(* One call of QuadraticMAStrategy.get_investment_amount on a history of   *)
(* about 250 rows: the first row closes at `head`, the last at `cur`, the  *)
(* others at 10; row 250 is dated on the first of a month.                 *)

QuadBase     == DaysFromCivil(2024, 3, 1) - MA_WINDOW
MaxQuadExtra == 1
QuadLens     == (MA_WINDOW - 1)..(MA_WINDOW + MaxQuadExtra)
QuadHeads    == {10, 1000}
QuadCurs     == {5, 8, 10, 12}
QuadCaps     == {RInt(3), RInt(5)}

QuadHistory(n, head, cur) ==
    [cols |-> {"date", "close"},
     rows |-> [i \in 1..n |->
                 [c \in {"date", "close"} |->
                     CASE c = "date" -> QuadBase + i
                       [] i = n -> cur
                       [] i = 1 -> head
                       [] OTHER -> 10]]]

QdInit ==
    \E n \in QuadLens, head \in QuadHeads, cur \in QuadCurs,
       f \in {"D", "M"}, cap \in QuadCaps :
        qd = [base_amount |-> RInt(FixedAmount), freq |-> f, k_factor |-> RInt(30),
              max_multiplier |-> cap, history_df |-> QuadHistory(n, head, cur),
              done |-> FALSE, out |-> RInt(0)]

QuadraticAmount ==
    /\ ~qd.done
    /\ qd' = [qd EXCEPT !.done = TRUE,
                        !.out = QuadraticGetInvestmentAmount(
                                    qd.base_amount, qd.freq, qd.k_factor,
                                    qd.max_multiplier, qd.history_df,
                                    qd.history_df.rows[Len(qd.history_df.rows)]["date"])]
    /\ UNCHANGED <<tm, chk, prb, clock, files, last, mrg, rs, bt, sg, sm>>

InitQuad ==
    /\ QdInit
    /\ tm = TmIdle /\ chk = ChkIdle /\ prb = PrbIdle /\ clock = ClockIdle
    /\ files = FilesIdle /\ last = LastIdle
    /\ mrg = MrgIdle /\ rs = RsIdle /\ bt = BtIdle
    /\ sg = SgIdle /\ sm = SmIdle

NextQuad == QuadraticAmount

SpecQuad == InitQuad /\ [][NextQuad]_vars

\* the call is made on an investment day
QdInvestmentDay ==
    \/ Len(qd.history_df.rows) = 1
    \/ qd.freq = "D"
    \/ qd.freq = "M" /\ YearMonth(qd.history_df.rows[Len(qd.history_df.rows)]["date"])
                          # YearMonth(qd.history_df.rows[Len(qd.history_df.rows) - 1]["date"])

QdSamples == Len(qd.history_df.rows)
QdCurrent == RInt(qd.history_df.rows[QdSamples]["close"])

\* the mean of the last 250 closes, today's included
QdMean ==
    Rat(SumCells([i \in 1..QdSamples |-> qd.history_df.rows[i]["close"]],
                 QdSamples - 249, QdSamples), 250)

\* D = (MA250 - current) / MA250
QdDrop == RDiv(RSub(QdMean, QdCurrent), QdMean)

\* C20: the amount is 0 on a non-investment day; on an investment day it is
\* base_amount with fewer than 250 samples or with current >= MA250, and
\* otherwise base_amount * min(1 + k * D^2, max_multiplier), which is at most
\* base_amount * max_multiplier.
C20_QuadraticAmount ==
    qd.done =>
        IF ~QdInvestmentDay THEN qd.out = RInt(0)
        ELSE IF QdSamples < 250 THEN qd.out = qd.base_amount
        ELSE IF RLe(QdMean, QdCurrent) THEN qd.out = qd.base_amount
        ELSE /\ qd.out = RMul(qd.base_amount,
                              RMin(RAdd(RInt(1), RMul(qd.k_factor, RMul(QdDrop, QdDrop))),
                                   qd.max_multiplier))
             /\ RLe(qd.out, RMul(qd.base_amount, qd.max_multiplier))

\* 251 samples, the price half the average: the multiplier 1 + 30 * D^2 is
\* above the cap 3, and the amount is 300
C20_Witness ==
    /\ qd.done
    /\ qd.freq = "D"
    /\ QdSamples = 251
    /\ QdCurrent = RInt(5)
    /\ qd.max_multiplier = RInt(3)
    /\ RLt(qd.max_multiplier, RAdd(RInt(1), RMul(qd.k_factor, RMul(QdDrop, QdDrop))))
    /\ qd.out = RInt(300)

\* the drop of the run's i-th row below the close of the run's first row,
\* (benchmark - current) / benchmark, never below 0
BtDropFromFirst(i) ==
    LET benchmark == RInt(bt.df_backtest.rows[1]["close"])
        current   == RInt(bt.df_backtest.rows[i]["close"])
    IN  RMax(RInt(0), RDiv(RSub(benchmark, current), benchmark))

\* C21: all through a run, BenchmarkDrop answers 0 on a non-investment day,
\* and on an investment day
\* baseAmount * (1 + scaleFactor * max(0, (benchmark - current) / benchmark))
\* with benchmark the close of the first row of the run, which is never less
\* than baseAmount.
C21_BenchmarkDrop ==
    bt.state \in {"Running", "Settled"} /\ bt.strategy.kind = "benchmark" =>
        \A i \in 1..Len(bt.calls) :
            IF should_invest(DateCol(HistorySubset(bt.df_backtest, i)),
                             bt.df_backtest.rows[i]["date"], bt.strategy.freq)
            THEN /\ bt.calls[i].amount =
                        RMul(bt.strategy.base_amount,
                             RAdd(RInt(1), RMul(bt.strategy.scale_factor, BtDropFromFirst(i))))
                 /\ RLe(bt.strategy.base_amount, bt.calls[i].amount)
            ELSE bt.calls[i].amount = RInt(0)

\* a run of three days closing at 3, 2, 2 with scaleFactor 2: the third day
\* is a third below the first and level with the day before, and the amount
\* is 100 * (1 + 2/3)
C21_Witness ==
    /\ bt.state = "Settled"
    /\ bt.strategy.kind = "benchmark"
    /\ bt.strategy.freq = "D"
    /\ bt.strategy.scale_factor = RInt(2)
    /\ Len(bt.calls) = 3
    /\ bt.df_backtest.rows[1]["close"] = 3
    /\ bt.df_backtest.rows[2]["close"] = 2
    /\ bt.df_backtest.rows[3]["close"] = 2
    /\ bt.calls[3].amount = Rat(500, 3)

----------------------------------------------------------------------------
(* strategies/benchmark.py: DynamicBenchmarkDropStrategy                   *)
(* A threshold is a record [limit, mult] for the pair (drop_ratio,         *)
(* multiplier).                                                            *)

\* x put behind every element of the descending sequence s that is not below it
RECURSIVE InsertDesc(_, _)
InsertDesc(s, x) ==
    IF s = <<>> THEN <<x>>
    ELSE IF RLt(Head(s).limit, x.limit) THEN <<x>> \o s
    ELSE <<Head(s)>> \o InsertDesc(Tail(s), x)

RECURSIVE SortedByLimitDesc(_)
SortedByLimitDesc(thresholds) ==
    IF thresholds = <<>> THEN <<>>
    ELSE InsertDesc(SortedByLimitDesc(SubSeq(thresholds, 1, Len(thresholds) - 1)),
                    thresholds[Len(thresholds)])

DynamicThresholds_as_given(thresholds) == thresholds

\* __init__, lines 55-59: sorted(thresholds, key=lambda x: x[0], reverse=True),
\* a stable sort; <<>> stands for None as well
DynamicThresholds(thresholds) == SortedByLimitDesc(thresholds)

\* the largest of the cells s[lo..hi], lo <= hi, by halves
RECURSIVE MaxCells(_, _, _)
MaxCells(s, lo, hi) ==
    IF lo = hi THEN s[lo]
    ELSE LET a == MaxCells(s, lo, (lo + hi) \div 2)
             b == MaxCells(s, (lo + hi) \div 2 + 1, hi)
         IN  IF a < b THEN b ELSE a

MAX_WINDOW == 60

\* _calc_benchmark, lines 88-102
CalcBenchmark(benchmark_type, close_series) ==
    CASE benchmark_type = "ma250" ->
            IF Len(close_series) >= MA_WINDOW
            THEN [none |-> FALSE, price |-> MA250(close_series)]
            ELSE [none |-> TRUE]
      [] benchmark_type = "max60" ->
            IF Len(close_series) >= 1
            THEN LET window == IF Len(close_series) < MAX_WINDOW
                               THEN Len(close_series) ELSE MAX_WINDOW
                 IN  [none |-> FALSE,
                      price |-> RInt(MaxCells(close_series,
                                              Len(close_series) - window + 1,
                                              Len(close_series)))]
            ELSE [none |-> TRUE]
      [] OTHER -> [none |-> TRUE]

\* lines 80-84: the loop over self.thresholds
RECURSIVE MatchThreshold(_, _)
MatchThreshold(thresholds, drop_ratio) ==
    IF thresholds = <<>> THEN RInt(1)
    ELSE IF RLt(Head(thresholds).limit, drop_ratio) THEN Head(thresholds).mult
    ELSE MatchThreshold(Tail(thresholds), drop_ratio)

\* lines 61-86: get_investment_amount of a strategy built with `thresholds`
DynamicGetInvestmentAmount(base_amount, freq, benchmark_type, thresholds, history_df, current_date) ==
    IF ~should_invest(DateCol(history_df), current_date, freq) THEN RInt(0)
    ELSE LET benchmark == CalcBenchmark(benchmark_type,
                              [i \in 1..Len(history_df.rows) |-> history_df.rows[i]["close"]])
             current_price == RInt(history_df.rows[Len(history_df.rows)]["close"])
         IN  IF benchmark.none THEN base_amount
             ELSE IF RLe(benchmark.price, current_price) THEN base_amount
             ELSE RMul(base_amount,
                       MatchThreshold(DynamicThresholds(thresholds),
                                      RDiv(RSub(benchmark.price, current_price),
                                           benchmark.price)))

----------------------------------------------------------------------------
(* strategies/fixed.py: IntervalFixedInvestment                            *)
(* An interval is a record [start, end, amount, freq].                     *)

RECURSIVE IntervalGetInvestmentAmount_last_match(_, _, _)
IntervalGetInvestmentAmount_last_match(intervals, history_df, current_date) ==
    IF intervals = <<>> THEN 0
    ELSE LET item == intervals[Len(intervals)]
         IN  IF item.start <= current_date /\ current_date <= item.end
             THEN FixedGetInvestmentAmount(item.amount, item.freq,
                                           DateCol(history_df), current_date)
             ELSE IntervalGetInvestmentAmount_last_match(
                      SubSeq(intervals, 1, Len(intervals) - 1), history_df, current_date)

\* lines 38-42: IntervalFixedInvestment(intervals)
\*     .get_investment_amount(history_df, current_date)
RECURSIVE IntervalGetInvestmentAmount(_, _, _)
IntervalGetInvestmentAmount(intervals, history_df, current_date) ==
    IF intervals = <<>> THEN 0
    ELSE LET item == Head(intervals)
         IN  IF item.start <= current_date /\ current_date <= item.end
             THEN FixedGetInvestmentAmount(item.amount, item.freq,
                                           DateCol(history_df), current_date)
             ELSE IntervalGetInvestmentAmount(Tail(intervals), history_df, current_date)

----------------------------------------------------------------------------
(* One call of get_investment_amount on a DynamicBenchmarkDropStrategy or  *)
(* an IntervalFixedInvestment, with the history up to today and today's    *)
(* date, as run_backtest calls it.                                         *)

\* thresholds, among them two with the same drop ratio
DynThresholdSet ==
    {[limit |-> Rat(1, 20), mult |-> Rat(3, 2)],
     [limit |-> Rat(1, 10), mult |-> RInt(2)],
     [limit |-> Rat(1, 10), mult |-> RInt(5)],
     [limit |-> Rat(1, 5),  mult |-> RInt(3)]}
MaxThresholds == 2

\* sequences over S of length at most n
SeqsUpTo(S, n) == UNION {[1..k -> S] : k \in 0..n}

\* the benchmark types and the history lengths around their windows; the
\* first row closes at 20, the last at one of DynCurs, the others at 10
DynCases ==
    ({"ma250"} \X {MA_WINDOW - 1, MA_WINDOW, MA_WINDOW + 1})
    \cup ({"max60"} \X {1, MAX_WINDOW - 1, MAX_WINDOW, MAX_WINDOW + 1})
DynCurs == {5, 8, 9, 10, 12}

SgDynamicInit ==
    \E c \in DynCases, cur \in DynCurs, f \in {"D", "M"},
       th \in SeqsUpTo(DynThresholdSet, MaxThresholds) :
        sg = [kind |-> "dynamic", done |-> FALSE, out |-> RInt(0),
              strategy |-> [base_amount |-> RInt(FixedAmount), freq |-> f,
                            benchmark_type |-> c[1], thresholds |-> th],
              history_df |-> QuadHistory(c[2], 20, cur)]

MaxIvSpan == 5
IvDays == TradingDays(TimingBase, TimingBase + MaxIvSpan)
IvIntervalSet ==
    {[start |-> TimingBase, end |-> TimingBase + 3, amount |-> 100, freq |-> "D"],
     [start |-> TimingBase + 3, end |-> TimingBase + 5, amount |-> 200, freq |-> "M"],
     [start |-> TimingBase + 4, end |-> TimingBase + 4, amount |-> 300, freq |-> "W"]}
MaxIntervals == 2

SgIntervalInit ==
    \E S \in SUBSET IvDays \ {{}}, iv \in SeqsUpTo(IvIntervalSet, MaxIntervals) :
        sg = [kind |-> "interval", done |-> FALSE, out |-> RInt(0),
              strategy |-> [intervals |-> iv],
              history_df |-> SeriesOf(S, [d \in IvDays |-> 10], {"date", "close"})]

SgToday == sg.history_df.rows[Len(sg.history_df.rows)]["date"]

DynamicCall ==
    /\ sg.kind = "dynamic" /\ ~sg.done
    /\ sg' = [sg EXCEPT !.done = TRUE,
                        !.out = DynamicGetInvestmentAmount(
                                    sg.strategy.base_amount, sg.strategy.freq,
                                    sg.strategy.benchmark_type, sg.strategy.thresholds,
                                    sg.history_df, SgToday)]
    /\ UNCHANGED <<tm, chk, prb, clock, files, last, mrg, rs, bt, qd, sm>>

IntervalCall ==
    /\ sg.kind = "interval" /\ ~sg.done
    /\ sg' = [sg EXCEPT !.done = TRUE,
                        !.out = RInt(IntervalGetInvestmentAmount(
                                         sg.strategy.intervals, sg.history_df, SgToday))]
    /\ UNCHANGED <<tm, chk, prb, clock, files, last, mrg, rs, bt, qd, sm>>

InitStrategy ==
    /\ SgDynamicInit \/ SgIntervalInit
    /\ tm = TmIdle /\ chk = ChkIdle /\ prb = PrbIdle /\ clock = ClockIdle
    /\ files = FilesIdle /\ last = LastIdle
    /\ mrg = MrgIdle /\ rs = RsIdle /\ bt = BtIdle /\ qd = QdIdle /\ sm = SmIdle

NextStrategy == DynamicCall \/ IntervalCall

SpecStrategy == InitStrategy /\ [][NextStrategy]_vars

SgSamples == Len(sg.history_df.rows)
SgCurrent == RInt(sg.history_df.rows[SgSamples]["close"])
SgCloses  == [i \in 1..SgSamples |-> sg.history_df.rows[i]["close"]]

\* today is an investment day for freq
SgInvestmentDay(freq) ==
    should_invest(DateCol(sg.history_df), SgToday, freq)

\* the benchmark of the trailing window ending today: the mean of the last
\* 250 closes, or the largest of the last 60 (of all, when there are fewer)
SgBenchmark ==
    IF sg.strategy.benchmark_type = "ma250"
    THEN Rat(SumCells(SgCloses, SgSamples - 249, SgSamples), 250)
    ELSE RInt(MaxCells(SgCloses, IF SgSamples > 60 THEN SgSamples - 59 ELSE 1, SgSamples))

SgDrop == RDiv(RSub(SgBenchmark, SgCurrent), SgBenchmark)

\* the supplied thresholds that the drop strictly exceeds
SgExceeded ==
    {k \in 1..Len(sg.strategy.thresholds) : RLt(sg.strategy.thresholds[k].limit, SgDrop)}

\* C22: on an investment day DynamicBenchmarkDrop answers baseAmount with
\* fewer than 250 samples (MA250 type), when current >= benchmark and when the
\* drop exceeds no threshold; otherwise it answers baseAmount times the
\* multiplier of a threshold of the largest drop ratio among those the drop
\* strictly exceeds, in whatever order the thresholds were supplied.
C22_DynamicThreshold ==
    sg.kind = "dynamic" /\ sg.done /\ SgInvestmentDay(sg.strategy.freq) =>
        IF sg.strategy.benchmark_type = "ma250" /\ SgSamples < 250
        THEN sg.out = sg.strategy.base_amount
        ELSE IF RLe(SgBenchmark, SgCurrent) \/ SgExceeded = {}
        THEN sg.out = sg.strategy.base_amount
        ELSE \E k \in SgExceeded :
                /\ \A j \in SgExceeded :
                      RLe(sg.strategy.thresholds[j].limit, sg.strategy.thresholds[k].limit)
                /\ sg.out = RMul(sg.strategy.base_amount, sg.strategy.thresholds[k].mult)

\* thresholds supplied in ascending order, 61 samples with the peak 20 just
\* outside the 60-sample window: the benchmark is 10, the price 8 is a fifth
\* below it, which exceeds 1/20 and 1/10 and the amount is twice the base
C22_Witness ==
    /\ sg.kind = "dynamic" /\ sg.done
    /\ sg.strategy.freq = "D"
    /\ sg.strategy.benchmark_type = "max60"
    /\ SgSamples = 61
    /\ SgCurrent = RInt(8)
    /\ sg.strategy.thresholds = <<[limit |-> Rat(1, 20), mult |-> Rat(3, 2)],
                                  [limit |-> Rat(1, 10), mult |-> RInt(2)]>>
    /\ sg.out = RInt(200)

\* the intervals of the list that contain today, bounds included
SgContaining ==
    {k \in 1..Len(sg.strategy.intervals) :
        /\ sg.strategy.intervals[k].start <= SgToday
        /\ SgToday <= sg.strategy.intervals[k].end}

\* C23: IntervalFixedFrequency answers 0 when no interval contains today, and
\* otherwise what the FixedFrequency of the first interval of the list that
\* contains today answers: its amount on its investment days, 0 on the others.
C23_IntervalFirstMatch ==
    sg.kind = "interval" /\ sg.done =>
        IF SgContaining = {} THEN sg.out = RInt(0)
        ELSE LET first == sg.strategy.intervals[CHOOSE k \in SgContaining :
                                                    \A j \in SgContaining : k <= j]
             IN  sg.out = IF SgInvestmentDay(first.freq)
                          THEN RInt(first.amount) ELSE RInt(0)

\* today is the last day of the first interval and the first day of the
\* second: the first one answers
C23_Witness ==
    /\ sg.kind = "interval" /\ sg.done
    /\ Len(sg.strategy.intervals) = 2
    /\ SgContaining = {1, 2}
    /\ sg.strategy.intervals[1].end = SgToday
    /\ sg.strategy.intervals[2].start = SgToday
    /\ sg.strategy.intervals[1].amount # sg.strategy.intervals[2].amount
    /\ sg.out = RInt(sg.strategy.intervals[1].amount)

----------------------------------------------------------------------------
(* backtest/summary.py                                                     *)
(* The float x ** y is not computed: the compound growth rate is kept as   *)
(* the term [zero |-> FALSE, base, exponent] for                            *)
(* (base ** exponent - 1) * 100, and 0.0 is [zero |-> TRUE].               *)

ZERO_RESULT == [zero |-> TRUE]

calc_annualized_return_no_min_period(total_invested, final_value, days) ==
    IF RLe(total_invested, RInt(0)) \/ RLe(final_value, RInt(0)) \/ days <= 0
    THEN ZERO_RESULT
    ELSE [zero |-> FALSE, base |-> RDiv(final_value, total_invested),
          exponent |-> RDiv(RInt(1), Rat(days * 100, 36525))]

\* lines 8-25; years = days / 365.25
calc_annualized_return(total_invested, final_value, days) ==
    IF RLe(total_invested, RInt(0)) \/ RLe(final_value, RInt(0)) \/ days <= 0
    THEN ZERO_RESULT
    ELSE LET years == Rat(days * 100, 36525)
         IN  IF RLt(years, Rat(1, 100)) THEN ZERO_RESULT
             ELSE [zero |-> FALSE, base |-> RDiv(final_value, total_invested),
                   exponent |-> RDiv(RInt(1), years)]

SummaryCols ==
    {"Strategy", "Total Invested", "Final Value", "Profit", "Return Rate (%)",
     "Annualized (%)"}

\* lines 45-63: the summary row of one strategy with a non-empty ledger
SummaryRow(name, df, duration_days) ==
    LET last_row == df[Len(df)]
        invested == last_row["total_invested"]
        value    == last_row["final_value"]
        profit   == RSub(value, invested)
    IN  [c \in SummaryCols |->
            CASE c = "Strategy" -> name
              [] c = "Total Invested" -> invested
              [] c = "Final Value" -> value
              [] c = "Profit" -> profit
              [] c = "Return Rate (%)" ->
                    IF RLt(RInt(0), invested)
                    THEN RMul(RDiv(profit, invested), RInt(100)) ELSE RInt(0)
              [] c = "Annualized (%)" ->
                    IF RLt(RInt(0), invested)
                    THEN calc_annualized_return(invested, value, duration_days)
                    ELSE ZERO_RESULT]

\* lines 41-63: summary_data; results is the dict as the sequence of its
\* items, a ledger is the sequence of its records
RECURSIVE SummaryData(_, _)
SummaryData(results, duration_days) ==
    IF results = <<>> THEN <<>>
    ELSE LET item == results[Len(results)]
             rest == SummaryData(SubSeq(results, 1, Len(results) - 1), duration_days)
         IN  IF item.none \/ item.df = <<>> THEN rest
             ELSE Append(rest, SummaryRow(item.name, item.df, duration_days))

SortedSummaries_ascending(summary_data) ==
    {[k \in 1..Len(summary_data) |-> summary_data[p[k]]] :
        p \in {q \in [1..Len(summary_data) -> 1..Len(summary_data)] :
                  /\ \A i, j \in 1..Len(summary_data) : i # j => q[i] # q[j]
                  /\ \A i \in 1..(Len(summary_data) - 1) :
                        RLe(summary_data[q[i]]["Return Rate (%)"],
                            summary_data[q[i + 1]]["Return Rate (%)"])}}

\* lines 65-68: sort_values(by="Return Rate (%)", ascending=False); the sort
\* is not stable, rows of equal return rate come out in any order
SortedSummaries(summary_data) ==
    {[k \in 1..Len(summary_data) |-> summary_data[p[k]]] :
        p \in {q \in [1..Len(summary_data) -> 1..Len(summary_data)] :
                  /\ \A i, j \in 1..Len(summary_data) : i # j => q[i] # q[j]
                  /\ \A i \in 1..(Len(summary_data) - 1) :
                        RLe(summary_data[q[i + 1]]["Return Rate (%)"],
                            summary_data[q[i]]["Return Rate (%)"])}}

----------------------------------------------------------------------------
(* One call of calc_annualized_return, or one call of                      *)
(* build_comparison_summary on the ledgers of up to MaxStrategies          *)
(* strategies and a requested window.                                      *)

SmInvested == {-100, 0, 1000}
SmValues   == {-5, 0, 1100}
SmDays     == {-1, 0, 1, 3, 4, 365}

SmCalcInit ==
    \E ti \in SmInvested, fv \in SmValues, d \in SmDays :
        sm = [kind |-> "calc", done |-> FALSE, total_invested |-> RInt(ti),
              final_value |-> RInt(fv), days |-> d, out |-> ZERO_RESULT]

SmBase == DaysFromCivil(2024, 1, 1)
MaxStrategies == 2
SmNames == <<"Strategy_A", "Strategy_B", "Strategy_C">>

\* a ledger record
SmRecord(date, invested, value) ==
    [c \in {"date", "total_invested", "final_value"} |->
        CASE c = "date" -> date
          [] c = "total_invested" -> RInt(invested)
          [] c = "final_value" -> RInt(value)]

\* the ledgers: None, an empty frame, one record, and two records
SmLedgers ==
    {[none |-> TRUE, df |-> <<>>], [none |-> FALSE, df |-> <<>>]}
    \cup {[none |-> FALSE, df |-> <<SmRecord(d, v[1], v[2])>>] :
             d \in {SmBase + 30, SmBase + 60},
             v \in {<<0, 0>>, <<1000, 1100>>, <<1000, 900>>, <<2000, 2400>>}}
    \cup {[none |-> FALSE, df |-> <<SmRecord(SmBase, 0, 0), SmRecord(SmBase + 1, v[1], v[2])>>] :
             v \in {<<1000, 1100>>, <<2000, 2400>>}}

\* the requested windows <<start, end>>
SmWindows ==
    {<<SmBase, SmBase + 30>>, <<SmBase, SmBase + 366>>, <<SmBase, SmBase + 3>>,
     <<SmBase, SmBase>>, <<SmBase + 30, SmBase>>}

SmBuildInit ==
    \E n \in 0..MaxStrategies, w \in SmWindows :
    \E ls \in [1..n -> SmLedgers] :
        sm = [kind |-> "build", done |-> FALSE,
              results |-> [k \in 1..n |-> [name |-> SmNames[k], none |-> ls[k].none,
                                           df |-> ls[k].df]],
              start_date |-> w[1], end_date |-> w[2], summary_df |-> <<>>]

CalcAnnualizedReturn ==
    /\ sm.kind = "calc" /\ ~sm.done
    /\ sm' = [sm EXCEPT !.done = TRUE,
                        !.out = calc_annualized_return(sm.total_invested,
                                                       sm.final_value, sm.days)]
    /\ UNCHANGED <<tm, chk, prb, clock, files, last, mrg, rs, bt, qd, sg>>

\* lines 37-69; duration_days = (e_dt - s_dt).days
BuildComparisonSummary ==
    /\ sm.kind = "build" /\ ~sm.done
    /\ \E s \in SortedSummaries(SummaryData(sm.results, sm.end_date - sm.start_date)) :
          sm' = [sm EXCEPT !.done = TRUE, !.summary_df = s]
    /\ UNCHANGED <<tm, chk, prb, clock, files, last, mrg, rs, bt, qd, sg>>

InitSummary ==
    /\ SmCalcInit \/ SmBuildInit
    /\ tm = TmIdle /\ chk = ChkIdle /\ prb = PrbIdle /\ clock = ClockIdle
    /\ files = FilesIdle /\ last = LastIdle
    /\ mrg = MrgIdle /\ rs = RsIdle /\ bt = BtIdle /\ qd = QdIdle /\ sg = SgIdle

NextSummary == CalcAnnualizedReturn \/ BuildComparisonSummary

SpecSummary == InitSummary /\ [][NextSummary]_vars

\* the item of the results behind the k-th row of the summary
SmSource(k) ==
    CHOOSE i \in 1..Len(sm.results) :
        sm.results[i].name = sm.summary_df[k]["Strategy"]

SmLast(k) == sm.results[SmSource(k)].df[Len(sm.results[SmSource(k)].df)]

\* the annualized value is 0.0 for these arguments
SmMustBeZero(total_invested, final_value, days) ==
    \/ RLe(total_invested, RInt(0))
    \/ RLe(final_value, RInt(0))
    \/ days <= 0
    \/ days * 10000 < 36525

\* C24: calc_annualized_return returns 0.0 when total_invested <= 0,
\* final_value <= 0, days <= 0 or days / 365.25 < 0.01; in the summary the
\* Annualized value of a row is 0.0 in these cases for the days of the
\* requested window (end - start), and two rows whose ledgers end on the same
\* total_invested and final_value have the same Annualized value, whatever
\* the dates of their ledgers.
C24_AnnualizedZeroAndWindow ==
    /\ sm.kind = "calc" /\ sm.done
          /\ SmMustBeZero(sm.total_invested, sm.final_value, sm.days)
       => sm.out = ZERO_RESULT
    /\ sm.kind = "build" /\ sm.done =>
          /\ \A k \in 1..Len(sm.summary_df) :
                /\ SmMustBeZero(SmLast(k)["total_invested"], SmLast(k)["final_value"],
                                sm.end_date - sm.start_date)
                      => sm.summary_df[k]["Annualized (%)"] = ZERO_RESULT
                /\ ~SmMustBeZero(SmLast(k)["total_invested"], SmLast(k)["final_value"],
                                 sm.end_date - sm.start_date)
                      => sm.summary_df[k]["Annualized (%)"]
                           = [zero |-> FALSE,
                              base |-> RDiv(SmLast(k)["final_value"],
                                            SmLast(k)["total_invested"]),
                              exponent |-> Rat(36525, 100 * (sm.end_date - sm.start_date))]
          /\ \A k, l \in 1..Len(sm.summary_df) :
                /\ SmLast(k)["total_invested"] = SmLast(l)["total_invested"]
                /\ SmLast(k)["final_value"] = SmLast(l)["final_value"]
                => sm.summary_df[k]["Annualized (%)"] = sm.summary_df[l]["Annualized (%)"]

\* a window of 3 days, under a hundredth of a year, around a ledger with a
\* gain whose own dates span more: the Annualized value is 0.0
C24_Witness ==
    /\ sm.kind = "build" /\ sm.done
    /\ sm.end_date - sm.start_date = 3
    /\ Len(sm.summary_df) = 2
    /\ SmLast(1)["date"] # SmLast(2)["date"]
    /\ SmLast(1)["total_invested"] = RInt(1000) /\ SmLast(1)["final_value"] = RInt(1100)
    /\ SmLast(2)["total_invested"] = RInt(1000) /\ SmLast(2)["final_value"] = RInt(1100)
    /\ sm.summary_df[1]["Annualized (%)"] = ZERO_RESULT

\* C25: the summary has exactly one row for each strategy whose ledger is
\* neither None nor empty, none for the others, and its rows are in
\* non-increasing order of Return Rate (%).
C25_SummaryRowsSorted ==
    sm.kind = "build" /\ sm.done =>
        /\ \A i \in 1..Len(sm.results) :
              Cardinality({k \in 1..Len(sm.summary_df) :
                              sm.summary_df[k]["Strategy"] = sm.results[i].name})
                = IF sm.results[i].none \/ sm.results[i].df = <<>> THEN 0 ELSE 1
        /\ \A k \in 1..Len(sm.summary_df) :
              \E i \in 1..Len(sm.results) :
                  sm.summary_df[k]["Strategy"] = sm.results[i].name
        /\ \A k \in 1..(Len(sm.summary_df) - 1) :
              RLe(sm.summary_df[k + 1]["Return Rate (%)"],
                  sm.summary_df[k]["Return Rate (%)"])

\* the strategy listed second has the higher return rate and comes out first
C25_Witness ==
    /\ sm.kind = "build" /\ sm.done
    /\ Len(sm.results) = 2
    /\ Len(sm.summary_df) = 2
    /\ sm.summary_df[1]["Strategy"] = sm.results[2].name
    /\ RLt(sm.summary_df[2]["Return Rate (%)"], sm.summary_df[1]["Return Rate (%)"])

----------------------------------------------------------------------------
(* One call of CacheManager.merge_data on any two frames: rows in any      *)
(* order of date, a date possibly repeated, as an upstream may hand them   *)
(* over.                                                                   *)

MaxAnyRows == 2

\* the frame whose rows carry the dates ds, in that order
FrameOfDates(ds) ==
    IF ds = <<>> THEN EmptyDF
    ELSE [cols |-> {"date", "close"},
          rows |-> [i \in 1..Len(ds) |->
                      [c \in {"date", "close"} |->
                          IF c = "date" THEN ds[i] ELSE 10 + i]]]

AnyFrames == {FrameOfDates(ds) : ds \in SeqsUpTo(MergeDays, MaxAnyRows)}

MrgAnyInit ==
    \E o \in AnyFrames, n \in AnyFrames :
        mrg = [old |-> o, new |-> n, done |-> FALSE, out |-> EmptyDF]

InitMergeAny ==
    /\ MrgAnyInit
    /\ tm = TmIdle /\ chk = ChkIdle /\ prb = PrbIdle /\ clock = ClockIdle
    /\ files = FilesIdle /\ last = LastIdle
    /\ rs = RsIdle /\ bt = BtIdle /\ qd = QdIdle
    /\ sg = SgIdle /\ sm = SmIdle

SpecMergeAny == InitMergeAny /\ [][NextMerge]_vars

\* C27: for any old and new frame, one of them empty, unsorted or with a
\* repeated date included, the dates of merge(old, new) are strictly
\* ascending.
C27_MergeStrictlyAscending ==
    mrg.done =>
        \A i \in 1..(Len(mrg.out.rows) - 1) :
            mrg.out.rows[i]["date"] < mrg.out.rows[i + 1]["date"]

----------------------------------------------------------------------------
(* Claims about the probes of one load_data call (Spec)                    *)

\* no element of the sequence s occurs twice
NoRepeat(s) == \A i, j \in 1..Len(s) : i # j => s[i] # s[j]

\* C28: in one load_data call no asset-class probe is invoked twice and the
\* enrichment probe is invoked only after a probe answered 'stock'; when
\* check_needs_update reports the cache fresh and force_update is not set, no
\* probe and no enrichment probe is invoked, the cached series is returned
\* and the cache directory is left as it was.
C28_ProbesOncePerLoad ==
    [][ (clock' = clock /\ last'.outcome \notin {"none", "ValueError"}) =>
            /\ NoRepeat(last'.fetched.invoked)
            /\ last'.cyq_called => last'.fetched.t = "stock"
            /\ ~last'.needs_update =>
                  /\ ~last'.force_update
                  /\ last'.fetched.invoked = <<>>
                  /\ ~last'.cyq_called
                  /\ last'.outcome = "returned"
                  /\ last'.df = load_local_cache(files[last'.path])
                  /\ files' = files ]_vars

\* a call that found a non-empty cache fresh and returned it
C28_Witness ==
    /\ last.outcome = "returned"
    /\ ~last.needs_update /\ ~last.force_update
    /\ ~IsEmpty(last.df)
    /\ last.fetched.invoked = <<>>
    /\ files[last.path].state = "ok"

\* the text behind the last dot of a symbol, in upper case
DotSuffix(symbol) ==
    Upper(Split(Strip(symbol))[Len(Split(Strip(symbol)))])

\* C29: a load_data call with a symbol that has a dot and whose dot-suffix is
\* not OF raises the unsupported-suffix error with no cache file read, no
\* probe invoked and the cache directory left as it was.
C29_BadSuffixRaisesFirst ==
    [][ ( /\ clock' = clock /\ last'.outcome # "none"
          /\ \E i \in 1..Len(last'.symbol) : last'.symbol[i] = "."
          /\ DotSuffix(last'.symbol) # <<"O", "F">> )
        => /\ last'.outcome = "ValueError"
           /\ last'.path = NoneStr
           /\ last'.fetched.invoked = <<>>
           /\ ~last'.cyq_called
           /\ files' = files ]_vars

----------------------------------------------------------------------------
(* Claims about the calls run_backtest makes to the strategy (SpecBacktest) *)

\* the totals after the first i rows of df_backtest
RECURSIVE RunTotals(_, _, _)
RunTotals(df_backtest, strategy, i) ==
    IF i = 0 THEN [invested |-> RInt(0), shares |-> RInt(0)]
    ELSE Buy(RunTotals(df_backtest, strategy, i - 1),
             GetInvestmentAmount(strategy, HistorySubset(df_backtest, i),
                                 df_backtest.rows[i]["date"]),
             RInt(df_backtest.rows[i]["close"]))

\* run_backtest as a function of its arguments: the ledger, <<>> for None
RunBacktest(none, df, start_date, end_date, strategy) ==
    IF none \/ IsEmpty(df) \/ start_date = BadDate \/ end_date = BadDate THEN <<>>
    ELSE LET df_backtest == FilterRows(df, start_date, end_date)
         IN  [i \in 1..Len(df_backtest.rows) |->
                 Record(df_backtest.rows[i], RunTotals(df_backtest, strategy, i))]

RowSet(df) == {df.rows[i] : i \in 1..Len(df.rows)}

\* the input row dated d
BtRowOn(d) == CHOOSE r \in RowSet(bt.df) : r["date"] = d

\* the rows of a frame dated inside [start, end] of the run
BtRowsInRange(df) ==
    {r \in RowSet(df) : bt.start_date <= r["date"] /\ r["date"] <= bt.end_date}

\* the input series that agree with the input of the run on [start, end]
BtAgreeing ==
    {f \in BtFrames : ~f.none /\ BtRowsInRange(f.df) = BtRowsInRange(bt.df)}

\* C30: run_backtest calls the strategy once per in-range row, in ascending
\* order, the t-th time with that row's date and the first t in-range rows
\* and nothing else; every input series with the same rows in [start, end]
\* gives the same ledger.
C30_CallsSeeRangePrefix ==
    bt.state \in {"Running", "Settled"} =>
        /\ Len(bt.calls) <= Cardinality(BtInRangeDates)
        /\ bt.state = "Settled" => Len(bt.calls) = Cardinality(BtInRangeDates)
        /\ \A t \in 1..Len(bt.calls) :
              /\ bt.calls[t].current_date = SortedSeq(BtInRangeDates)[t]
              /\ Len(bt.calls[t].history_df.rows) = t
              /\ \A k \in 1..Len(bt.calls[t].history_df.rows) :
                    k <= t => bt.calls[t].history_df.rows[k]
                                = BtRowOn(SortedSeq(BtInRangeDates)[k])
        /\ bt.state = "Settled" =>
              \A f \in BtAgreeing :
                  RunBacktest(f.none, f.df, bt.start_date, bt.end_date, bt.strategy)
                    = bt.daily_records

\* a range of one day inside a series of three whose first close, out of the
\* range, is above the others: BenchmarkDrop sees the one row and answers
\* the base amount
C30_Witness ==
    /\ bt.state = "Settled"
    /\ bt.strategy.kind = "benchmark"
    /\ Len(bt.df.rows) = 3
    /\ bt.start_date = bt.df.rows[2]["date"] /\ bt.end_date = bt.df.rows[2]["date"]
    /\ bt.df.rows[1]["close"] = 3 /\ bt.df.rows[2]["close"] = 2
    /\ Len(bt.calls) = 1
    /\ bt.calls[1].amount = bt.strategy.base_amount
    /\ Cardinality(BtAgreeing) > 1

====
